---- MODULE Spec2Model ----
(***************************************************************************)
(* Model of the orchestration engine of gemini-mcp-remote:                 *)
(*   - the File Grouper (createFileGroupsAlgorithmic,                      *)
(*     createFileGroupsWithAI),                                            *)
(*   - the Batch Analysis Coordinator (project_orchestrator_analyze:       *)
(*     analyzeGroup, Promise.all, aggregateAnalysisResults) running on the *)
(*     Credential Rotation Executor (retryWithApiKeyRotation),             *)
(*   - the executor observed alone, one invocation over a pool,            *)
(*   - the analyze step's validation and re-hydration of the plan,         *)
(*   - the WorkspaceManager under set_repository requests.                 *)
(* Line numbers refer to src/unnamed/part_000 unless src/unnamed/part_003  *)
(* is named.                                                               *)
(***************************************************************************)
EXTENDS Integers, Sequences, FiniteSets, TLC

VARIABLES
    \* ---- File Grouper ----
    files,              \* the manifest: sequence of FileTokenInfo (filePath, tokens)
    maxTokensPerGroup,  \* the ceiling
    aiCall,             \* what the assisted call yields (executor outcome, response text shape, parsed data)
    fileGroups,         \* the FileGroup[] returned by the grouper
    gpc,                \* "input" | "algorithmic" | "assisted": which strategy has returned
    \* ---- Batch Analysis Coordinator (project_orchestrator_analyze) ----
    now,                \* Date.now(), in ms
    hpc,                \* position of the handler: "created" | "received" | .. | "ready" | "launched" | "returned"
    nGroups,            \* groups.length
    apiKeys,            \* the resolved credential pool
    tasks,              \* one analyzeGroup call per group: position, timer, executor state, promise
    completionOrder,    \* the tasks in the order their promises settled
    response,           \* what the handler returned
    \* ---- Credential Rotation Executor, one invocation observed alone ----
    inv,                \* the local state of the invocation (lines 223-226)
    attemptLog,         \* history: per attempt, the credential used, its times and its outcome
    \* ---- WorkspaceManager (src/unnamed/part_003, lines 203-276) ----
    currentWorkspace,   \* the singleton's slot: the current Workspace or null
    tempDirs,           \* the temporary directories made so far: tempDirs[p] iff directory p exists
    calls,              \* the set_repository requests received: position and locals of each
    \* ---- project_orchestrator_analyze before the launch (lines 2462-2539) ----
    request,            \* the analyze request (held by the caller while hpc = "created") and its environment: plan text, working directory, disk
    groups,             \* the FileGroup[] reconstructed from the plan
    rehydration,        \* the inner loop of the reconstruction and the warnings logged
    \* ---- token estimators and the single-shot analysis (lines 391-461, 1770-1880) ----
    fileContent,        \* the content of a file that grows character by character
    estimate,           \* what the two estimators return for fileContent
    prompt              \* the texts of a single-shot analysis: context, system prompt, question

grouperVars == <<files, maxTokensPerGroup, aiCall, fileGroups, gpc>>
coordVars == <<now, hpc, nGroups, apiKeys, tasks, completionOrder, response>>
execVars == <<inv, attemptLog>>
wsVars == <<currentWorkspace, tempDirs, calls>>
planVars == <<request, groups, rehydration>>
tokenVars == <<fileContent, estimate, prompt>>

vars == <<files, maxTokensPerGroup, aiCall, fileGroups, gpc,
          now, hpc, nGroups, apiKeys, tasks, completionOrder, response,
          inv, attemptLog, currentWorkspace, tempDirs, calls, request, groups,
          rehydration, fileContent, estimate, prompt>>

(***************************************************************************)
(* Bounds of the explored inputs.                                          *)
(***************************************************************************)
MaxFiles == 4          \* manifest length, deterministic strategy
MaxCost == 3           \* file token costs range over 0..MaxCost
MaxCeil == 2           \* ceilings range over 0..MaxCeil
MaxAiSize == 4         \* size of an AI proposal: one per group plus one per listed path
MaxGroups == 3         \* groups of a plan
MaxFailures == 1       \* rotatable failures the provider answers with, over all invocations of a run
MaxKeys == 3           \* credential pools of 1..MaxKeys keys, executor observed alone
MaxAttempts == 4       \* attempts of one invocation the provider may answer, executor observed alone
MaxCalls == 3          \* set_repository requests received
MaxPlanGroups == 2     \* groups of a plan handed to the analyze step
MaxPlanFiles == 2      \* files listed by one group of such a plan

\* Program constants.
maxDurationMs == 240000    \* 4 * 60 * 1000, line 221
BackoffMs == 1000          \* line 311
StaggerMs == 700           \* line 2610

\* A value that is a string or undefined (an optional FileGroup field,
\* lines 2968-2976: set to a string, or never set): the sequence of the one
\* string, or the empty sequence.  The string "undefined" is a string like
\* any other.
Undefined == <<>>
StringValue(str) == <<str>>

(***************************************************************************)
(* Generic helpers.                                                        *)
(***************************************************************************)
RECURSIVE SumTokens(_)
\* files.reduce((sum, f) => sum + f.tokens, 0)
SumTokens(fs) ==
    IF fs = <<>> THEN 0 ELSE Head(fs).tokens + SumTokens(Tail(fs))

RECURSIVE FlatFiles(_)
\* groups.flatMap((g) => g.files)
FlatFiles(gs) ==
    IF gs = <<>> THEN <<>> ELSE Head(gs).files \o FlatFiles(Tail(gs))

RECURSIVE SumGroupTokens(_)
\* groups.reduce((sum, g) => sum + g.totalTokens, 0)
SumGroupTokens(gs) ==
    IF gs = <<>> THEN 0 ELSE Head(gs).totalTokens + SumGroupTokens(Tail(gs))

\* number of positions of sequence s holding a file with path p
Occurrences(s, p) == Cardinality({i \in DOMAIN s : s[i].filePath = p})

(***************************************************************************)
(* createFileGroupsAlgorithmic (lines 3220-3279)                           *)
(***************************************************************************)
RECURSIVE InsertByTokens(_, _)
\* One insertion of the stable sort: f goes after every element whose
\* tokens are <= f.tokens (comparator a.tokens - b.tokens, stable sort).
InsertByTokens(sorted, f) ==
    IF sorted = <<>> THEN <<f>>
    ELSE IF Head(sorted).tokens <= f.tokens
         THEN <<Head(sorted)>> \o InsertByTokens(Tail(sorted), f)
         ELSE <<f>> \o sorted

RECURSIVE SortByTokens(_)
\* [...files].sort((a, b) => a.tokens - b.tokens), line 3231
SortByTokens(fs) ==
    IF fs = <<>> THEN <<>>
    ELSE InsertByTokens(SortByTokens(SubSeq(fs, 1, Len(fs) - 1)), fs[Len(fs)])

\* A FileGroup as the deterministic strategy builds it: no name, description,
\* reasoning or customPrompt.
PlainGroup(fs, total, idx) ==
    [files |-> fs, totalTokens |-> total, groupIndex |-> idx,
     name |-> Undefined, description |-> Undefined, reasoning |-> Undefined,
     customPrompt |-> Undefined]

\* Mutant of AlgoStep: the running group is never closed.
AlgoStepNeverCloses(st, file, maxTokens) ==
    IF file.tokens > maxTokens
    THEN [st EXCEPT !.groups = Append(@, PlainGroup(<<file>>, file.tokens, st.groupIndex)),
                    !.groupIndex = @ + 1]
    ELSE [st EXCEPT !.currentGroup = Append(@, file),
                    !.currentTokens = @ + file.tokens]

\* variant: the running group is closed as soon as the file would fill it
\* to the ceiling
AlgoStepClosesAtCeiling(st, file, maxTokens) ==
    IF file.tokens > maxTokens
    THEN [st EXCEPT !.groups = Append(@, PlainGroup(<<file>>, file.tokens, st.groupIndex)),
                    !.groupIndex = @ + 1]
    ELSE IF st.currentTokens + file.tokens >= maxTokens /\ Len(st.currentGroup) > 0
         THEN [st EXCEPT !.groups = Append(@, PlainGroup(st.currentGroup, st.currentTokens, st.groupIndex)),
                         !.groupIndex = @ + 1,
                         !.currentGroup = <<file>>,
                         !.currentTokens = file.tokens]
         ELSE [st EXCEPT !.currentGroup = Append(@, file),
                         !.currentTokens = @ + file.tokens]

\* One iteration of the loop over sortedFiles, lines 3233-3267.
\* st = [groups, currentGroup, currentTokens, groupIndex]
AlgoStep(st, file, maxTokens) ==
    IF file.tokens > maxTokens
    THEN \* oversized file: its own group, the running group is left alone
         [st EXCEPT !.groups = Append(@, PlainGroup(<<file>>, file.tokens, st.groupIndex)),
                    !.groupIndex = @ + 1]
    ELSE IF st.currentTokens + file.tokens > maxTokens /\ Len(st.currentGroup) > 0
         THEN [st EXCEPT !.groups = Append(@, PlainGroup(st.currentGroup, st.currentTokens, st.groupIndex)),
                         !.groupIndex = @ + 1,
                         !.currentGroup = <<file>>,
                         !.currentTokens = file.tokens]
         ELSE [st EXCEPT !.currentGroup = Append(@, file),
                         !.currentTokens = @ + file.tokens]

RECURSIVE AlgoLoop(_, _, _)
\* for (const file of sortedFiles) { ... }, line 3233
AlgoLoop(st, sorted, maxTokens) ==
    IF sorted = <<>> THEN st
    ELSE AlgoLoop(AlgoStep(st, Head(sorted), maxTokens), Tail(sorted), maxTokens)

\* Mutant of AlgoFinish: the last running group is not flushed.
AlgoFinishNoFlush(st) == st.groups

\* "Add the last group if it has files", lines 3269-3278.
AlgoFinish(st) ==
    IF Len(st.currentGroup) > 0
    THEN Append(st.groups, PlainGroup(st.currentGroup, st.currentTokens, st.groupIndex))
    ELSE st.groups

createFileGroupsAlgorithmic(fs, maxTokens, startIndex) ==
    AlgoFinish(AlgoLoop([groups |-> <<>>, currentGroup |-> <<>>,
                         currentTokens |-> 0, groupIndex |-> startIndex],
                        SortByTokens(fs), maxTokens))

(***************************************************************************)
(* createFileGroupsWithAI (lines 3027-3217)                                *)
(***************************************************************************)
\* variant: a path the manifest lacks is taken as a file of cost 1
FindFileTrusting(fs, p) ==
    LET hits == {i \in DOMAIN fs : fs[i].filePath = p}
    IN  IF hits = {} THEN <<[filePath |-> p, tokens |-> 1]>>
        ELSE <<fs[CHOOSE i \in hits : \A j \in hits : i <= j]>>

\* files.find((f) => f.filePath === filePath), line 3146: the first match or none
FindFile(fs, p) ==
    LET hits == {i \in DOMAIN fs : fs[i].filePath = p}
    IN  IF hits = {} THEN <<>>
        ELSE <<fs[CHOOSE i \in hits : \A j \in hits : i <= j]>>

RECURSIVE ResolveFiles(_, _)
\* the inner loop over aiGroup.files, lines 3145-3151: unknown paths are skipped
ResolveFiles(fs, paths) ==
    IF paths = <<>> THEN <<>>
    ELSE FindFile(fs, Head(paths)) \o ResolveFiles(fs, Tail(paths))

\* Mutant of AiGroupStep: the proposed group is trusted without the ceiling check.
AiGroupStepTrusts(st, aiGroup, fs, maxTokens) ==
    LET groupFiles == ResolveFiles(fs, aiGroup.files)
    IN  [aiGroups |-> Append(st.aiGroups,
                             [files |-> groupFiles, totalTokens |-> SumTokens(groupFiles),
                              groupIndex |-> st.groupIndex,
                              name |-> StringValue(aiGroup.name),
                              description |-> StringValue(aiGroup.description),
                              reasoning |-> StringValue(aiGroup.reasoning),
                              customPrompt |-> StringValue(aiGroup.customPrompt)]),
         groupIndex |-> st.groupIndex + 1]

\* One iteration of the loop over groupingData.groups, lines 3141-3181.
\* st = [aiGroups, groupIndex]
AiGroupStep(st, aiGroup, fs, maxTokens) ==
    LET groupFiles == ResolveFiles(fs, aiGroup.files)
        totalTokens == SumTokens(groupFiles)
    IN  IF totalTokens > maxTokens
        THEN LET splitGroups == createFileGroupsAlgorithmic(groupFiles, maxTokens, st.groupIndex)
             IN  [aiGroups |-> st.aiGroups \o splitGroups,
                  groupIndex |-> st.groupIndex + Len(splitGroups)]
        ELSE [aiGroups |-> Append(st.aiGroups,
                                  [files |-> groupFiles, totalTokens |-> totalTokens,
                                   groupIndex |-> st.groupIndex,
                                   name |-> StringValue(aiGroup.name),
                                   description |-> StringValue(aiGroup.description),
                                   reasoning |-> StringValue(aiGroup.reasoning),
                                   customPrompt |-> StringValue(aiGroup.customPrompt)]),
              groupIndex |-> st.groupIndex + 1]

RECURSIVE AiLoop(_, _, _, _)
AiLoop(st, proposed, fs, maxTokens) ==
    IF proposed = <<>> THEN st
    ELSE AiLoop(AiGroupStep(st, Head(proposed), fs, maxTokens), Tail(proposed), fs, maxTokens)

\* files.filter((f) => !includedFiles.has(f.filePath)), lines 3184-3187
RemainingFiles(fs, aiGroups) ==
    LET includedFiles == {FlatFiles(aiGroups)[i].filePath : i \in DOMAIN FlatFiles(aiGroups)}
    IN  SelectSeq(fs, LAMBDA f : f.filePath \notin includedFiles)

\* Mutant of AppendRemaining: unclaimed files are not appended.
AppendRemainingDrops(st, fs, maxTokens) == st.aiGroups

\* "Handle any files not included in AI groups", lines 3183-3199.
AppendRemaining(st, fs, maxTokens) ==
    LET remainingFiles == RemainingFiles(fs, st.aiGroups)
    IN  IF Len(remainingFiles) > 0
        THEN st.aiGroups \o createFileGroupsAlgorithmic(remainingFiles, maxTokens, st.groupIndex)
        ELSE st.aiGroups

\* Does the try block (lines 3039-3208) throw?  The executor may throw
\* (line 3111); the response may match neither regex (3128-3133);
\* JSON.parse may throw (3135); groupingData.groups may not be iterable
\* (3141); some aiGroup.files may not be iterable (3145).
AiThrows(call) ==
    \/ call.executor = "throws"
    \/ ~(call.fenced \/ call.braces)
    \/ ~call.parses
    \/ ~call.data.hasGroups
    \/ \E i \in DOMAIN call.data.groups : ~call.data.groups[i].hasFiles

\* Mutant of AiCatch: the failure yields no groups instead of the fallback.
AiCatchEmpty(fs, maxTokens) == <<>>

\* The catch block, lines 3209-3216.
AiCatch(fs, maxTokens) == createFileGroupsAlgorithmic(fs, maxTokens, 0)

createFileGroupsWithAI(fs, maxTokens, call) ==
    IF AiThrows(call)
    THEN AiCatch(fs, maxTokens)
    ELSE AppendRemaining(AiLoop([aiGroups |-> <<>>, groupIndex |-> 0],
                                call.data.groups, fs, maxTokens),
                         fs, maxTokens)

(***************************************************************************)
(* Inputs of the grouper.                                                  *)
(***************************************************************************)
PathNames == <<"a", "b", "c", "d", "e", "f">>
AiPathNames == <<"a", "b", "c">>
UnknownPath == "zz"

Costs == 0 .. MaxCost
Ceilings == 0 .. MaxCeil

\* manifests of n files with distinct paths, every assignment of costs
ManifestsOfLen(names, n) ==
    {[i \in 1 .. n |-> [filePath |-> names[i], tokens |-> c[i]]] : c \in [1 .. n -> Costs]}

Manifests == UNION {ManifestsOfLen(PathNames, n) : n \in 0 .. MaxFiles}
AiManifests == UNION {ManifestsOfLen(AiPathNames, n) : n \in 0 .. Len(AiPathNames)}

\* proposed groups: a list of paths (known, unknown, repeated) or no files property
AiPaths == {AiPathNames[i] : i \in DOMAIN AiPathNames} \cup {UnknownPath}
AiGroupsOfSize(n) ==
    IF n < 1 THEN {}
    ELSE {[name |-> "core", description |-> "the core", reasoning |-> "cohesion",
           customPrompt |-> "expert", hasFiles |-> TRUE, files |-> fl] :
              fl \in [1 .. (n - 1) -> AiPaths]}
         \cup (IF n = 1
               THEN {[name |-> "core", description |-> "the core", reasoning |-> "cohesion",
                      customPrompt |-> "expert", hasFiles |-> FALSE, files |-> <<>>]}
               ELSE {})

RECURSIVE AiProposals(_)
\* every list of proposed groups of total size <= budget
AiProposals(budget) ==
    {<<>>} \cup
    UNION {{<<g>> \o rest : g \in AiGroupsOfSize(n), rest \in AiProposals(budget - n)} :
               n \in 1 .. budget}

\* hasGroups / hasFiles: whether the parsed object has the property at all
NoData == [hasGroups |-> FALSE, groups |-> <<>>]

AiCalls ==
    {[executor |-> "returns", fenced |-> TRUE, braces |-> TRUE, parses |-> TRUE,
      data |-> [hasGroups |-> TRUE, groups |-> p]] : p \in AiProposals(MaxAiSize)}
    \cup {[executor |-> "returns", fenced |-> FALSE, braces |-> TRUE, parses |-> TRUE,
           data |-> [hasGroups |-> TRUE, groups |-> p]] : p \in AiProposals(2)}
    \cup {[executor |-> "returns", fenced |-> FALSE, braces |-> TRUE, parses |-> TRUE, data |-> NoData],
          [executor |-> "returns", fenced |-> TRUE, braces |-> TRUE, parses |-> FALSE, data |-> NoData],
          [executor |-> "returns", fenced |-> FALSE, braces |-> TRUE, parses |-> FALSE, data |-> NoData],
          [executor |-> "returns", fenced |-> FALSE, braces |-> FALSE, parses |-> FALSE, data |-> NoData],
          [executor |-> "throws", fenced |-> FALSE, braces |-> FALSE, parses |-> FALSE, data |-> NoData]}

NoAiCall == [executor |-> "none", fenced |-> FALSE, braces |-> FALSE, parses |-> FALSE, data |-> NoData]

(***************************************************************************)
(* retryWithApiKeyRotation (lines 217-337)                                 *)
(* An error message is kept as the sequence of the pieces of text it was   *)
(* put together from (fixed text and interpolated values); its text is the *)
(* pieces separated by single spaces.  <<>> is the empty or missing        *)
(* message.  A phrase searched for is a string.                            *)
(***************************************************************************)
\* the characters of the message
RECURSIVE Text(_)
Text(message) ==
    IF message = <<>> THEN ""
    ELSE IF Len(message) = 1 THEN message[1]
    ELSE message[1] \o " " \o Text(Tail(message))

\* String.prototype.includes on two strings: `phrase` occurs in `text`
\* character for character, with the same spelling and case
Contains(text, phrase) ==
    \E i \in 1 .. Len(text) - Len(phrase) + 1 :
        SubSeq(text, i, i + Len(phrase) - 1) = phrase

\* error.message.includes(phrase)
includes(message, phrase) == Contains(Text(message), phrase)

\* the substrings tested at lines 275-284, in that order
RotatableSignatures ==
    {"429", "Too Many Requests", "quota", "rate limit",
     "exceeded your current quota", "API key not valid",
     "503", "Service Unavailable", "overloaded",
     "Please try again later"}

\* variant: the last signature is matched without its first word
isRotatableErrorShortPhrase(message) ==
    /\ Text(message) # ""
    /\ \E sig \in (RotatableSignatures \ {"Please try again later"})
                        \cup {"try again later"} : includes(message, sig)

\* lines 273-284: error.message is truthy and contains one of the substrings
isRotatableError(message) ==
    /\ Text(message) # ""
    /\ \E sig \in RotatableSignatures : includes(message, sig)

NoError == <<>>

\* A result of requestFn is identified by the attempt that produced it;
\* NoResult stands for "nothing returned".
NoResult == [attempt |-> 0, key |-> ""]
ResultOf(e, keys) == [attempt |-> e.attemptCount, key |-> keys[e.currentKeyIndex + 1]]

\* variant: the start time is shared by all invocations (the time the
\* handler began) instead of being taken at the call
NewInvocationEpoch(t) ==
    [status |-> "idle", startTime |-> 0, currentKeyIndex |-> 0, attemptCount |-> 0,
     lastError |-> NoError, error |-> NoError, result |-> NoResult]

\* The local state of one invocation, lines 223-226.
\* status: "idle" (not invoked) | "request" (awaiting requestFn) |
\*         "backoff" (awaiting the 1 s timer) | "returned" | "threw"
NewInvocation(t) ==
    [status |-> "idle", startTime |-> t, currentKeyIndex |-> 0, attemptCount |-> 0,
     lastError |-> NoError, error |-> NoError, result |-> NoResult]

NotInvoked == NewInvocation(0)

\* variant: the loop is bounded by a number of attempts, not by time
LoopConditionByAttempts(e, t) == e.attemptCount < 2

\* variant: the deadline itself still admits an attempt
LoopConditionInclusive(e, t) == t - e.startTime <= maxDurationMs

\* while (Date.now() - startTime < maxDurationMs), line 233
LoopCondition(e, t) == t - e.startTime < maxDurationMs

\* lines 334-336: `... with ${attemptCount} attempts across ${apiKeys.length}
\* API keys. All keys hit rate limits. Last error: ${lastError?.message || "Unknown error"}`
TimeoutError(e, keys) ==
    <<"Gemini API requests failed after 4 minutes with", ToString(e.attemptCount),
      "attempts across", ToString(Len(keys)), "API keys. All keys hit rate limits. Last error:">>
    \o (IF e.lastError = NoError THEN <<"Unknown error">> ELSE e.lastError)

\* variant: past the deadline nothing is thrown and the invocation stays
\* where it is
LoopHeadStalls(e, t, keys) ==
    IF t - e.startTime < maxDurationMs
    THEN [e EXCEPT !.status = "request", !.attemptCount = @ + 1]
    ELSE e

\* The loop head at time t: a new attempt (lines 234-246) or the timeout
\* error (lines 326-336).
LoopHead(e, t, keys) ==
    IF LoopCondition(e, t)
    THEN [e EXCEPT !.status = "request", !.attemptCount = @ + 1]
    ELSE [e EXCEPT !.status = "threw", !.error = TimeoutError(e, keys)]

\* the credential of the attempt in flight, line 235
currentApiKey(e, keys) == keys[e.currentKeyIndex + 1]

\* variant: a resolved request does not leave the loop
OnSuccessKeepsLooping(e, result) == [e EXCEPT !.status = "backoff", !.result = result]

\* requestFn resolved: return result, line 261
OnSuccess(e, result) == [e EXCEPT !.status = "returned", !.result = result]

\* variant: a rotatable failure retries without moving the cursor
OnFailureNoRotation(e, message, keys) ==
    IF isRotatableError(message)
    THEN [e EXCEPT !.lastError = message, !.status = "backoff"]
    ELSE [e EXCEPT !.lastError = message, !.status = "threw", !.error = message]

\* variant: every failure is retried on the next credential
OnFailureRetriesAll(e, message, keys) ==
    [e EXCEPT !.lastError = message,
              !.currentKeyIndex = (@ + 1) % Len(keys),
              !.status = "backoff"]

\* requestFn rejected with `message`: the catch block, lines 262-323
OnFailure(e, message, keys) ==
    IF isRotatableError(message)
    THEN [e EXCEPT !.lastError = message,
                   !.currentKeyIndex = (@ + 1) % Len(keys),
                   !.status = "backoff"]
    ELSE [e EXCEPT !.lastError = message, !.status = "threw", !.error = message]

(***************************************************************************)
(* analyzeGroup and the launch (lines 2545-2614)                           *)
(* A promise is [state, value]; a value is a group's analysis text or its  *)
(* failure marker.  The provider's answer to group index's prompt is the   *)
(* text written for that group.                                            *)
(***************************************************************************)
NoValue == [kind |-> "none", group |-> 0, message |-> <<>>]
PendingPromise == [state |-> "pending", value |-> NoValue]

\* groupResponse.text(), lines 2590-2598
GroupAnalysis(index) == [kind |-> "text", group |-> index + 1, message |-> <<>>]

\* `**Group ${index + 1} Analysis Failed:** ${error.message}`, line 2604
FailureMarker(index, message) == [kind |-> "failed", group |-> index + 1, message |-> message]

\* Mutant of AnalyzeGroupCatch: the error escapes analyzeGroup.
AnalyzeGroupRethrows(index, message) ==
    [state |-> "rejected", value |-> FailureMarker(index, message)]

\* the catch block of analyzeGroup, lines 2599-2605
AnalyzeGroupCatch(index, message) ==
    [state |-> "fulfilled", value |-> FailureMarker(index, message)]

\* analyzeGroup after the executor has returned or thrown, lines 2590-2605
SettleTask(task, index) ==
    IF task.exec.status = "returned"
    THEN [task EXCEPT !.pc = "done",
                      !.promise = [state |-> "fulfilled", value |-> GroupAnalysis(index)]]
    ELSE IF task.exec.status = "threw"
         THEN [task EXCEPT !.pc = "done",
                           !.promise = AnalyzeGroupCatch(index, task.exec.error)]
         ELSE task

\* variant: each group is given one credential of the pool, by its index
StartAnalysisOwnKey(task, index, t, keys) ==
    LET own == <<keys[(index % Len(keys)) + 1]>>
    IN  SettleTask([task EXCEPT !.pc = "executing",
                                !.invocations = @ + 1,
                                !.pool = own,
                                !.exec = LoopHead(NewInvocation(t), t, own)], index)

\* analyzeGroup from the try block on, at time t: invoke the executor, which
\* runs up to its first await (lines 2555-2588, 223-246).  invocations counts
\* the calls of retryWithApiKeyRotation the task has made and pool is the
\* credential list it passed (line 2583).
StartAnalysis(task, index, t, keys) ==
    SettleTask([task EXCEPT !.pc = "executing",
                            !.invocations = @ + 1,
                            !.pool = keys,
                            !.exec = LoopHead(NewInvocation(t), t, keys)], index)

\* variant: the analysis starts at once, whatever the delay
analyzeGroupAtOnce(index, delayMs, t, keys) ==
    StartAnalysis([pc |-> "delay", wake |-> t + delayMs, exec |-> NotInvoked,
                   invocations |-> 0, pool |-> <<>>,
                   promise |-> PendingPromise], index, t, keys)

\* analyzeGroup(group, index, index * 700) up to its first await, lines 2545-2553, 2610
analyzeGroup(index, delayMs, t, keys) ==
    LET fresh == [pc |-> "delay", wake |-> t + delayMs, exec |-> NotInvoked,
                  invocations |-> 0, pool |-> <<>>,
                  promise |-> PendingPromise]
    IN  IF delayMs > 0 THEN fresh ELSE StartAnalysis(fresh, index, t, keys)

\* Mutant of PromiseAllSettled: resolves as soon as one promise has settled.
PromiseAnySettled(promises) ==
    \/ promises = <<>>
    \/ \E i \in DOMAIN promises : promises[i].state # "pending"

\* Promise.all(groupPromises), line 2614: settles when every promise is
\* fulfilled, or as soon as one is rejected
PromiseAllSettled(promises) ==
    \/ \A i \in DOMAIN promises : promises[i].state = "fulfilled"
    \/ \E i \in DOMAIN promises : promises[i].state = "rejected"

PromiseAllRejected(promises) == \E i \in DOMAIN promises : promises[i].state = "rejected"

\* Mutant of PromiseAllValues: the values in the order the promises settled.
PromiseValuesInCompletionOrder(promises, order) ==
    [k \in DOMAIN promises |->
        IF k \in DOMAIN order THEN promises[order[k]].value ELSE NoValue]

\* the array Promise.all resolves to: positional, line 2614
PromiseAllValues(promises, order) == [k \in DOMAIN promises |-> promises[k].value]

(***************************************************************************)
(* aggregateAnalysisResults (lines 3282-3339)                              *)
(***************************************************************************)
\* variant: the failed outcomes get no section
aggregateSuccessesOnly(groupResults, question, analysisMode, t) ==
    LET Succeeded(result) == result.kind # "failed"
        successes == SelectSeq(groupResults, Succeeded)
    IN  [question |-> question,
         analysisMode |-> analysisMode,
         analysisGroups |-> Len(groupResults),
         processed |-> t,
         sections |-> [k \in DOMAIN successes |-> [label |-> k, body |-> successes[k]]]]

\* One "### Group ${index + 1} Analysis" section per result, in array order,
\* lines 3305-3315; the header carries the question, the mode, the count and
\* the timestamp `new Date().toISOString()` of line 3287, t being the time
\* of the call.
aggregateAnalysisResults(groupResults, question, analysisMode, t) ==
    [question |-> question,
     analysisMode |-> analysisMode,
     analysisGroups |-> Len(groupResults),
     processed |-> t,
     sections |-> [k \in DOMAIN groupResults |-> [label |-> k, body |-> groupResults[k]]]]

NoReport == aggregateAnalysisResults(<<>>, "", Undefined, 0)
NoResponse == [isError |-> FALSE, groupResults |-> <<>>, report |-> NoReport, error |-> NoError]

\* the response of the handler's catch block, lines 2662-2693: the text
\* carries error.message
ErrorResponse(message) ==
    [isError |-> TRUE, groupResults |-> <<>>, report |-> NoReport, error |-> message]

\* the reason Promise.all rejects with: that of the promise rejected first
FirstRejection(promises, order) ==
    LET k == CHOOSE k \in DOMAIN order :
                 /\ promises[order[k]].state = "rejected"
                 /\ \A j \in 1 .. (k - 1) : promises[order[j]].state # "rejected"
    IN  promises[order[k]].value.message

(***************************************************************************)
(* Token estimators (lines 391-461, 2979-3000).  A text is a sequence of   *)
(* runs [ch, n]: n copies of the character ch.                             *)
(***************************************************************************)
\* Math.ceil(a / b) for naturals
CeilDiv(a, b) == (a + b - 1) \div b

RECURSIVE TextLength(_)
\* text.length
TextLength(text) ==
    IF text = <<>> THEN 0 ELSE Head(text).n + TextLength(Tail(text))

RECURSIVE CountOf(_, _)
\* (text.match(/[class]/g) || []).length for a class of single characters
CountOf(text, class) ==
    IF text = <<>> THEN 0
    ELSE (IF Head(text).ch \in class THEN Head(text).n ELSE 0) + CountOf(Tail(text), class)

RECURSIVE Chars(_)
\* the characters of the text, one by one
Chars(text) ==
    IF text = <<>> THEN <<>>
    ELSE [k \in 1 .. Head(text).n |-> Head(text).ch] \o Chars(Tail(text))

\* t + c
AppendChar(text, c) ==
    IF text # <<>> /\ text[Len(text)].ch = c
    THEN [text EXCEPT ![Len(text)].n = @ + 1]
    ELSE Append(text, [ch |-> c, n |-> 1])

\* the character class of lines 402-404 and 2984-2986; the grave accent,
\* which a string of this module cannot hold, is written by its name
SpecialChars ==
    {"{", "}", "[", "]", "(", ")", ";", ",", ".", "<", ">", "/", "\\", "=", "+", "-",
     "*", "&", "|", "!", "@", "#", "$", "%", "^", "grave accent", "~"}

\* the alternation of line 2988, in its order
CodeStructures ==
    <<<<"f", "u", "n", "c", "t", "i", "o", "n">>,
      <<"c", "l", "a", "s", "s">>,
      <<"i", "n", "t", "e", "r", "f", "a", "c", "e">>,
      <<"i", "m", "p", "o", "r", "t">>,
      <<"e", "x", "p", "o", "r", "t">>,
      <<"c", "o", "n", "s", "t">>,
      <<"l", "e", "t">>,
      <<"v", "a", "r">>>>

\* word occurs in cs at position p
MatchesAt(cs, p, word) ==
    /\ p + Len(word) - 1 <= Len(cs)
    /\ \A j \in DOMAIN word : cs[p + j - 1] = word[j]

RECURSIVE CountStructures(_, _)
\* the number of matches of the global regular expression of line 2988 from
\* position p on: leftmost first, the first alternative that matches, the
\* scan resuming after the match
CountStructures(cs, p) ==
    IF p > Len(cs) THEN 0
    ELSE IF \E w \in DOMAIN CodeStructures : MatchesAt(cs, p, CodeStructures[w])
         THEN LET w == CHOOSE w \in DOMAIN CodeStructures :
                           /\ MatchesAt(cs, p, CodeStructures[w])
                           /\ \A v \in 1 .. (w - 1) : ~MatchesAt(cs, p, CodeStructures[v])
              IN  1 + CountStructures(cs, p + Len(CodeStructures[w]))
         ELSE CountStructures(cs, p + 1)

\* the number of matches of / {2,}/g, line 2983: the maximal runs of at
\* least two spaces
CountSpaceRuns(cs) ==
    Cardinality({p \in DOMAIN cs :
                    /\ cs[p] = " "
                    /\ p < Len(cs) /\ cs[p + 1] = " "
                    /\ (p = 1 \/ cs[p - 1] # " ")})

\* calculateTokens with the base estimate rounded down
calculateTokensRoundsDown(text) ==
    TextLength(text) \div 4
        + CeilDiv(CountOf(text, {"\n"}), 2)
        + CeilDiv(CountOf(text, {" "}), 10)
        + CeilDiv(CountOf(text, SpecialChars), 5)

\* calculateTokens, lines 391-418: Math.ceil(length / 4), plus
\* Math.ceil(newlines * 0.5), Math.ceil(spaces * 0.1) and
\* Math.ceil(specialChars * 0.2)
calculateTokens(text) ==
    CeilDiv(TextLength(text), 4)
        + CeilDiv(CountOf(text, {"\n"}), 2)
        + CeilDiv(CountOf(text, {" "}), 10)
        + CeilDiv(CountOf(text, SpecialChars), 5)

\* calculateFileTokens, lines 2979-3000: Math.ceil(length / 4), plus
\* Math.ceil(newlines * 0.5), Math.ceil(spaceRuns * 0.3),
\* Math.ceil(specialChars * 0.2) and Math.ceil(codeStructures * 2)
calculateFileTokens(content) ==
    CeilDiv(TextLength(content), 4)
        + CeilDiv(CountOf(content, {"\n"}), 2)
        + CeilDiv(3 * CountSpaceRuns(Chars(content)), 10)
        + CeilDiv(CountOf(content, SpecialChars), 5)
        + 2 * CountStructures(Chars(content), 1)

\* line 426
GEMINI_25_PRO_TOKEN_LIMIT == 1000000

\* the total validateTokenLimit compares, lines 428-432
TotalTokens(content, systemPrompt, question) ==
    calculateTokens(content) + calculateTokens(systemPrompt) + calculateTokens(question)

\* validateTokenLimit throwing already at the limit
validateTokenLimitAtLimit(content, systemPrompt, question) ==
    IF TotalTokens(content, systemPrompt, question) >= GEMINI_25_PRO_TOKEN_LIMIT
    THEN <<"Token limit exceeded!">>
    ELSE NoError

\* Number.prototype.toLocaleString() of a count (lines 438-444), in the
\* locale en-US the runtime takes by default: the decimal digits in groups
\* of three, separated by commas
RECURSIVE toLocaleString(_)
toLocaleString(n) ==
    IF n < 1000 THEN ToString(n)
    ELSE LET rest == n % 1000
         IN  toLocaleString(n \div 1000) \o ","
                 \o (IF rest < 10 THEN "00" ELSE IF rest < 100 THEN "0" ELSE "")
                 \o ToString(rest)

\* validateTokenLimit, lines 421-461: the message of the error it throws
\* (lines 436-445, the lines that hold a count), or NoError when it returns
validateTokenLimit(content, systemPrompt, question) ==
    LET contentTokens == calculateTokens(content)
        systemTokens == calculateTokens(systemPrompt)
        questionTokens == calculateTokens(question)
        totalTokens == contentTokens + systemTokens + questionTokens
        exceededBy == totalTokens - GEMINI_25_PRO_TOKEN_LIMIT
    IN  IF totalTokens > GEMINI_25_PRO_TOKEN_LIMIT
        THEN <<"Token limit exceeded!",
               "- Project content: " \o toLocaleString(contentTokens) \o " tokens",
               "- System prompt: " \o toLocaleString(systemTokens) \o " tokens",
               "- Your question: " \o toLocaleString(questionTokens) \o " tokens",
               "- **Total: " \o toLocaleString(totalTokens) \o " tokens**",
               "**Limit exceeded by: " \o toLocaleString(exceededBy) \o " tokens**",
               "**Gemini 2.5 Pro limit: " \o toLocaleString(GEMINI_25_PRO_TOKEN_LIMIT)
                   \o " tokens**">>
        ELSE NoError

(***************************************************************************)
(* The reconstruction of the groups from the plan,                         *)
(* project_orchestrator_analyze lines 2497-2539.                           *)
(***************************************************************************)
\* The handler after fs.stat has settled, lines 2497-2510: stat errors, the
\* directory test, and the start of `for (const groupData of groupsData.groups)`,
\* which throws a TypeError when groups is missing.
StatError(req) ==
    IF req.stat = "ENOENT" THEN <<"ENOENT", "no such file or directory, stat">>
    ELSE IF req.stat = "EACCES" THEN <<"Failed to access project path:", "EACCES">>
    ELSE IF req.stat # "directory" THEN <<"Project path is not a directory:">>
    ELSE IF ~req.plan.data.hasGroups THEN <<"groupsData.groups is not iterable">>
    ELSE NoError

\* one pass of the inner loop, lines 2512-2527: a file that cannot be read
\* is logged and left out
ReadFile(fileData, readable) ==
    IF fileData.filePath \in readable
    THEN <<[filePath |-> fileData.filePath, tokens |-> fileData.tokens,
            content |-> <<"content of", fileData.filePath>>]>>
    ELSE <<>>

\* The optional properties of a group: an object of the plan has those in
\* its set props, and reading one it lacks yields undefined.
OptionalProps == {"name", "description", "reasoning", "customPrompt"}
Prop(object, p) == IF p \in object.props THEN StringValue(object[p]) ELSE Undefined

\* the object of lines 2529-2537, readFiles being the local array `files`;
\* hasTotalTokens: whether groupData.totalTokens is a number or undefined
RehydrateGroup(groupData, readFiles) ==
    [files |-> readFiles,
     hasTotalTokens |-> groupData.hasTotalTokens,
     totalTokens |-> groupData.totalTokens,
     groupIndex |-> groupData.groupIndex,
     name |-> Prop(groupData, "name"),
     description |-> Prop(groupData, "description"),
     reasoning |-> Prop(groupData, "reasoning"),
     customPrompt |-> Prop(groupData, "customPrompt")]

\* variant: a group left without files is not pushed
PushGroupUnlessEmpty(gs, groupData, readFiles) ==
    IF readFiles = <<>> THEN gs ELSE Append(gs, RehydrateGroup(groupData, readFiles))

\* groups.push({...}), line 2529
PushGroup(gs, groupData, readFiles) == Append(gs, RehydrateGroup(groupData, readFiles))

\* `for (const fileData of groupData.files)` throws a TypeError on a group
\* without a files list, line 2512
RehydrateError(groupData) ==
    IF ~groupData.hasFiles THEN <<"groupData.files is not iterable">> ELSE NoError

\* The two loops of lines 2509-2538 run from the position rd on, as far as
\* they go without waiting, gs being the array `groups`.  They stop at the
\* next `await fs.readFile` (pc "reading"), at the end of the outer loop
\* (pc "ready") or at the TypeError of line 2512 (error).
RECURSIVE Rehydrate(_, _, _)
Rehydrate(planGroups, gs, rd) ==
    IF rd.group > Len(planGroups)
    THEN [pc |-> "ready", error |-> NoError, groups |-> gs,
          rehydration |-> [rd EXCEPT !.group = 0, !.file = 0, !.files = <<>>]]
    ELSE LET groupData == planGroups[rd.group]
         IN  IF RehydrateError(groupData) # NoError
             THEN [pc |-> "returned", error |-> RehydrateError(groupData), groups |-> gs,
                   rehydration |-> [rd EXCEPT !.group = 0, !.file = 0, !.files = <<>>]]
             ELSE IF rd.file > Len(groupData.files)
             THEN Rehydrate(planGroups, PushGroup(gs, groupData, rd.files),
                            [rd EXCEPT !.group = @ + 1, !.file = 1, !.files = <<>>])
             ELSE [pc |-> "reading", error |-> NoError, groups |-> gs, rehydration |-> rd]

(***************************************************************************)
(* The coordinator as a state machine.                                     *)
(***************************************************************************)
Tasks == 1 .. nGroups
Promises == [i \in Tasks |-> tasks[i].promise]

\* what the provider may answer a request with
RequestErrors == {<<"quota">>, <<"fetch failed">>}

IdleGrouper ==
    /\ files = <<>>
    /\ maxTokensPerGroup = 0
    /\ aiCall = [executor |-> "none", fenced |-> FALSE, braces |-> FALSE, parses |-> FALSE,
                 data |-> [hasGroups |-> FALSE, groups |-> <<>>]]
    /\ fileGroups = <<>>
    /\ gpc = "idle"

IdleCoordinator ==
    /\ now = 0
    /\ hpc = "idle"
    /\ nGroups = 0
    /\ apiKeys = <<>>
    /\ tasks = <<>>
    /\ completionOrder = <<>>
    /\ response = NoResponse

IdleExecutor ==
    /\ inv = NotInvoked
    /\ attemptLog = <<>>

\* src/unnamed/part_003 line 204: private currentWorkspace: Workspace | null = null.
\* A directory made by mkdtemp is identified by its position in tempDirs;
\* NoPath is the path of no directory.
NoPath == 0
NoWorkspace == [present |-> FALSE, repoUrl |-> "", localPath |-> NoPath]

IdleWorkspace ==
    /\ currentWorkspace = NoWorkspace
    /\ tempDirs = <<>>
    /\ calls = <<>>

\* a parsed plan without a groups list; hasTotalTokens: whether totalTokens
\* is a number or undefined
NoPlanData == [hasGroups |-> FALSE, groups |-> <<>>, hasTotalTokens |-> FALSE, totalTokens |-> 0]

\* the default of maxTokensPerGroup, line 650
DefaultCeiling == 900000

\* JSON.stringify of a string without its quotes: the quote and the
\* backslash are escaped, the line feed, the form feed, the carriage return
\* and the tab written as \n, \f, \r and \t (the string is split in halves
\* to keep the evaluation shallow).  The other control characters, which
\* JSON.stringify writes as \b or \u00XX, cannot be written in a string of
\* this module.
RECURSIVE Escaped(_)
Escaped(str) ==
    IF Len(str) = 0 THEN ""
    ELSE IF Len(str) = 1
         THEN IF str = "\"" THEN "\\\""
              ELSE IF str = "\\" THEN "\\\\"
              ELSE IF str = "\n" THEN "\\n"
              ELSE IF str = "\f" THEN "\\f"
              ELSE IF str = "\r" THEN "\\r"
              ELSE IF str = "\t" THEN "\\t"
              ELSE str
         ELSE LET half == Len(str) \div 2
              IN  Escaped(SubSeq(str, 1, half)) \o Escaped(SubSeq(str, half + 1, Len(str)))

\* the members of an object or the elements of an array, comma-separated
RECURSIVE JoinStrings(_)
JoinStrings(strs) ==
    IF strs = <<>> THEN ""
    ELSE IF Len(strs) = 1 THEN strs[1]
    ELSE strs[1] \o "," \o JoinStrings(Tail(strs))

\* JSON.stringify of { filePath, tokens }, lines 2354-2357
FileText(f) ==
    "{\"filePath\":\"" \o Escaped(f.filePath) \o "\",\"tokens\":" \o ToString(f.tokens) \o "}"

\* JSON.stringify of one element of groups.map(...), lines 2353-2364, from
\* the object JSON.parse makes of it: the members in the order of the
\* literal, a member whose value is undefined left out
GroupText(g) ==
    LET StringMember(p) ==
            IF p \in g.props THEN <<"\"" \o p \o "\":\"" \o Escaped(g[p]) \o "\"">> ELSE <<>>
    IN  "{" \o JoinStrings(
            (IF g.hasFiles
             THEN <<"\"files\":[" \o JoinStrings([j \in DOMAIN g.files |-> FileText(g.files[j])]) \o "]">>
             ELSE <<>>)
            \o (IF g.hasTotalTokens THEN <<"\"totalTokens\":" \o ToString(g.totalTokens)>> ELSE <<>>)
            \o <<"\"groupIndex\":" \o ToString(g.groupIndex)>>
            \o StringMember("name") \o StringMember("description")
            \o StringMember("reasoning") \o StringMember("customPrompt")) \o "}"

\* JSON.stringify of the object of lines 2351-2369, from the object
\* JSON.parse makes of it.  The create schema (lines 639-655) has no
\* analysisMode, so params.analysisMode is undefined and left out; a plan
\* that was not written by the create step may lack other members.
PlanText(data) ==
    LET NumberMember(p) ==
            IF p \in DOMAIN data THEN <<"\"" \o p \o "\":" \o ToString(data[p])>> ELSE <<>>
    IN  "{" \o JoinStrings(
            (IF data.hasGroups
             THEN <<"\"groups\":[" \o JoinStrings([k \in DOMAIN data.groups |-> GroupText(data.groups[k])]) \o "]">>
             ELSE <<>>)
            \o NumberMember("totalFiles")
            \o (IF data.hasTotalTokens THEN <<"\"totalTokens\":" \o ToString(data.totalTokens)>> ELSE <<>>)
            \o (IF "projectPath" \in DOMAIN data
                THEN <<"\"projectPath\":\"" \o Escaped(data.projectPath) \o "\"">>
                ELSE <<>>)
            \o NumberMember("maxTokensPerGroup")) \o "}"

\* the fileGroupsData argument of project_orchestrator_analyze (line 672)
\* holding the text of `data`: `chars` is the length of the string, `parses`
\* whether JSON.parse (line 2484) returns and `data` what it returns
PlanOf(data) == [chars |-> Len(PlanText(data)), parses |-> TRUE, data |-> data]

\* no analyze request received
NoRequest ==
    [plan |-> [chars |-> 0, parses |-> FALSE, data |-> NoPlanData], question |-> "", cwd |-> "",
     stat |-> "ENOENT", readable |-> {}]

\* the request of a run whose plan is the create step's (lines 2351-2369)
\* for a project of n files of one token, each in a group of its own, all
\* of them readable
CreatedRequest(n) ==
    [plan |-> PlanOf([hasGroups |-> TRUE,
                      groups |-> [k \in 1 .. n |->
                                     [hasFiles |-> TRUE,
                                      files |-> <<[filePath |-> PathNames[k], tokens |-> 1]>>,
                                      hasTotalTokens |-> TRUE, totalTokens |-> 1,
                                      groupIndex |-> k - 1, props |-> {}, name |-> "",
                                      description |-> "", reasoning |-> "",
                                      customPrompt |-> ""]],
                      totalFiles |-> n,
                      hasTotalTokens |-> TRUE, totalTokens |-> n,
                      projectPath |-> "/home/u/Projects/app",
                      maxTokensPerGroup |-> DefaultCeiling]),
     question |-> "q", cwd |-> "/home/u/Projects/app", stat |-> "directory",
     readable |-> {PathNames[k] : k \in 1 .. n}]

\* `groupsData.totalTokens.toLocaleString()` (lines 2636, 2647) and
\* `group.totalTokens.toLocaleString()` (line 2653) throw a TypeError on
\* undefined
ResponseTemplateError(groupsData, fileGroupList) ==
    IF \/ ~groupsData.hasTotalTokens
       \/ \E k \in DOMAIN fileGroupList : ~fileGroupList[k].hasTotalTokens
    THEN <<"Cannot read properties of undefined (reading 'toLocaleString')">>
    ELSE NoError

\* the loops of the reconstruction before they are entered: `group` is the
\* position in groupsData.groups of the group under way and `file` the
\* position in groupData.files of the file whose read is awaited (0: none),
\* `files` the local array of the group under way, `warnings` the files
\* logged at line 2522 with the position of their group
NotReading == [group |-> 0, file |-> 0, files |-> <<>>, warnings |-> <<>>]

IdlePlan ==
    /\ request = NoRequest
    /\ groups = <<>>
    /\ rehydration = NotReading

\* no text estimated, no single-shot analysis requested
NoPrompt == [fullContext |-> <<>>, systemPrompt |-> <<>>, question |-> <<>>]

IdleTokens ==
    /\ fileContent = <<>>
    /\ estimate = [tokens |-> 0, fileTokens |-> 0]
    /\ prompt = NoPrompt

KeyNames == <<"key1", "key2", "key3", "key4">>

\* the array `groups` when the loops of lines 2509-2538 are left and every
\* read has succeeded
Reconstructed(req) ==
    [k \in DOMAIN req.plan.data.groups |->
        LET groupData == req.plan.data.groups[k]
        IN  RehydrateGroup(groupData,
                           [j \in DOMAIN groupData.files |->
                               ReadFile(groupData.files[j], req.readable)[1]])]

\* the handler has reconstructed the groups of a plan of 0..MaxGroups groups
\* and is about to launch their analyses (line 2609)
InitCoordinator ==
    /\ IdleGrouper
    /\ IdleExecutor
    /\ IdleWorkspace
    /\ request \in {CreatedRequest(n) : n \in 0 .. MaxGroups}
    /\ groups = Reconstructed(request)
    /\ rehydration = NotReading
    /\ IdleTokens
    /\ now = 0
    /\ hpc = "ready"
    /\ nGroups = Len(groups)
    /\ apiKeys = SubSeq(KeyNames, 1, 2)
    /\ tasks = <<>>
    /\ completionOrder = <<>>
    /\ response = NoResponse

\* groups.map((group, index) => analyzeGroup(group, index, index * 700)), lines 2609-2611
Launch ==
    /\ hpc = "ready"
    /\ tasks' = [i \in Tasks |-> analyzeGroup(i - 1, (i - 1) * StaggerMs, now, apiKeys)]
    /\ hpc' = "launched"
    /\ UNCHANGED <<now, nGroups, apiKeys, completionOrder, response>>
    /\ UNCHANGED <<grouperVars, execVars, wsVars, planVars, tokenVars>>

Settled(i) == tasks[i].promise.state # "pending"

\* completion order after task i took a step
OrderAfter(i, task) ==
    IF task.promise.state # "pending" /\ ~Settled(i)
    THEN Append(completionOrder, i) ELSE completionOrder

\* the stagger timer of task i fires, line 2552
DelayElapsed(i) ==
    /\ hpc # "ready"
    /\ tasks[i].pc = "delay"
    /\ now >= tasks[i].wake
    /\ LET t == StartAnalysis(tasks[i], i - 1, now, apiKeys)
       IN  /\ tasks' = [tasks EXCEPT ![i] = t]
           /\ completionOrder' = OrderAfter(i, t)
    /\ UNCHANGED <<now, hpc, nGroups, apiKeys, response>>
    /\ UNCHANGED <<grouperVars, execVars, wsVars, planVars, tokenVars>>

\* the request in flight of task i succeeds, lines 246-261
RequestSucceeds(i) ==
    /\ tasks[i].pc = "executing"
    /\ tasks[i].exec.status = "request"
    /\ LET t == SettleTask([tasks[i] EXCEPT !.exec = OnSuccess(@, ResultOf(@, tasks[i].pool))], i - 1)
       IN  /\ tasks' = [tasks EXCEPT ![i] = t]
           /\ completionOrder' = OrderAfter(i, t)
    /\ UNCHANGED <<now, hpc, nGroups, apiKeys, response>>
    /\ UNCHANGED <<grouperVars, execVars, wsVars, planVars, tokenVars>>

\* the attempts of invocation e that have failed so far
FailedAttempts(e) ==
    e.attemptCount - (IF e.status \in {"request", "returned"} THEN 1 ELSE 0)

\* the failed attempts of invocation e that the catch block classified as
\* rotatable (line 286): all of them, except the one that was rethrown
\* (line 322), which is the last one and ended the invocation
RotatableAttempts(e) ==
    FailedAttempts(e) - (IF e.status = "threw" /\ e.error = e.lastError THEN 1 ELSE 0)

RECURSIVE SumFailures(_)
SumFailures(ts) ==
    IF ts = <<>> THEN 0
    ELSE RotatableAttempts(Head(ts).exec) + SumFailures(Tail(ts))

\* rotatable failures the provider has answered with so far, over all tasks
RotatableFailures == SumFailures(tasks)

\* the request in flight of task i fails with `message`, lines 262-323
RequestFails(i, message) ==
    /\ tasks[i].pc = "executing"
    /\ tasks[i].exec.status = "request"
    /\ isRotatableError(message) => RotatableFailures < MaxFailures
    /\ LET t == SettleTask([tasks[i] EXCEPT !.exec = OnFailure(@, message, tasks[i].pool),
                                            !.wake = now + BackoffMs], i - 1)
       IN  /\ tasks' = [tasks EXCEPT ![i] = t]
           /\ completionOrder' = OrderAfter(i, t)
    /\ UNCHANGED <<now, hpc, nGroups, apiKeys, response>>
    /\ UNCHANGED <<grouperVars, execVars, wsVars, planVars, tokenVars>>

\* the backoff timer of task i fires and the loop condition is evaluated
\* again, lines 311-312, 233
BackoffElapsed(i) ==
    /\ tasks[i].pc = "executing"
    /\ tasks[i].exec.status = "backoff"
    /\ now >= tasks[i].wake
    /\ LET t == SettleTask([tasks[i] EXCEPT !.exec = LoopHead(@, now, tasks[i].pool)], i - 1)
       IN  /\ tasks' = [tasks EXCEPT ![i] = t]
           /\ completionOrder' = OrderAfter(i, t)
    /\ UNCHANGED <<now, hpc, nGroups, apiKeys, response>>
    /\ UNCHANGED <<grouperVars, execVars, wsVars, planVars, tokenVars>>

\* await Promise.all(groupPromises) resumes; aggregation and the response,
\* lines 2614-2661; a rejection goes to the handler's catch, lines 2662-2693
Return ==
    /\ hpc = "launched"
    /\ PromiseAllSettled(Promises)
    /\ LET groupResults == PromiseAllValues(Promises, completionOrder)
           templateError == ResponseTemplateError(request.plan.data, groups)
       IN  response' =
               IF PromiseAllRejected(Promises)
               THEN ErrorResponse(FirstRejection(Promises, completionOrder))
               ELSE IF templateError # NoError
                    THEN ErrorResponse(templateError)
                    ELSE [isError |-> FALSE, groupResults |-> groupResults,
                          report |-> aggregateAnalysisResults(groupResults, request.question,
                                                              Undefined, now),
                          error |-> NoError]
    /\ hpc' = "returned"
    /\ UNCHANGED <<now, nGroups, apiKeys, tasks, completionOrder>>
    /\ UNCHANGED <<grouperVars, execVars, wsVars, planVars, tokenVars>>

\* the timers still pending
DueTimes ==
    {tasks[i].wake : i \in {j \in DOMAIN tasks :
        tasks[j].pc = "delay" \/ (tasks[j].pc = "executing" /\ tasks[j].exec.status = "backoff")}}

\* The clock advances to the time the next pending timer is due; a timer
\* that is due fires before the clock moves on.
TickToTimer ==
    /\ hpc = "launched"
    /\ DueTimes # {}
    /\ \A t \in DueTimes : t > now
    /\ now' = CHOOSE t \in DueTimes : \A u \in DueTimes : t <= u
    /\ UNCHANGED <<hpc, nGroups, apiKeys, tasks, completionOrder, response>>
    /\ UNCHANGED <<grouperVars, execVars, wsVars, planVars, tokenVars>>

\* The clock advances by a whole deadline while requests or timers are
\* pending; explored once, from a time before the first deadline.
TickLong ==
    /\ hpc = "launched"
    /\ \E i \in DOMAIN tasks : tasks[i].pc # "done"
    /\ \A t \in DueTimes : t > now
    /\ now < maxDurationMs
    /\ now' = now + maxDurationMs
    /\ UNCHANGED <<hpc, nGroups, apiKeys, tasks, completionOrder, response>>
    /\ UNCHANGED <<grouperVars, execVars, wsVars, planVars, tokenVars>>

NextCoordinator ==
    \/ Launch
    \/ \E i \in DOMAIN tasks : DelayElapsed(i)
    \/ \E i \in DOMAIN tasks : RequestSucceeds(i)
    \/ \E i \in DOMAIN tasks, m \in RequestErrors : RequestFails(i, m)
    \/ \E i \in DOMAIN tasks : BackoffElapsed(i)
    \/ Return
    \/ TickToTimer
    \/ TickLong

SpecCoordinator == InitCoordinator /\ [][NextCoordinator]_vars

(***************************************************************************)
(* retryWithApiKeyRotation observed alone: one invocation over a pool of   *)
(* 1..MaxKeys credentials.  attemptLog keeps, for every pass through the   *)
(* try block (lines 234-261), the credential handed to createModelFn, the  *)
(* time the attempt started, the time requestFn settled and how.           *)
(***************************************************************************)
Pending == [kind |-> "pending", message |-> NoError]
Succeeded == [kind |-> "ok", message |-> NoError]
Failed(message) == [kind |-> "error", message |-> message]

\* the attempt the loop head has just started, lines 234-246
LogAttempt(log, e, t, keys) ==
    IF e.status = "request"
    THEN Append(log, [key |-> currentApiKey(e, keys), startedAt |-> t, endedAt |-> t,
                      outcome |-> Pending])
    ELSE log

\* requestFn settled at time t
LogOutcome(log, t, outcome) ==
    [log EXCEPT ![Len(log)] = [@ EXCEPT !.endedAt = t, !.outcome = outcome]]

\* times at which the invocation may begin
StartTimes == {0, BackoffMs}

\* messages requestFn may reject with: three rotatable, two not, and an
\* error without message
ExecutorErrors ==
    {<<"quota">>, <<"[503 Service Unavailable]", "The model is overloaded.">>, <<"429">>,
     <<"fetch failed">>, <<"SAFETY">>, NoError}

InitExecutor ==
    /\ IdleGrouper
    /\ now \in StartTimes
    /\ hpc = "idle"
    /\ nGroups = 0
    /\ apiKeys \in {SubSeq(KeyNames, 1, n) : n \in 1 .. MaxKeys}
    /\ tasks = <<>>
    /\ completionOrder = <<>>
    /\ response = NoResponse
    /\ IdleExecutor
    /\ IdleWorkspace
    /\ IdlePlan
    /\ IdleTokens

\* retryWithApiKeyRotation(createModelFn, requestFn, apiKeys) is called:
\* lines 223-226 and the first pass through the loop head
Invoke ==
    /\ inv.status = "idle"
    /\ LET e == LoopHead(NewInvocation(now), now, apiKeys)
       IN  /\ inv' = e
           /\ attemptLog' = LogAttempt(attemptLog, e, now, apiKeys)
    /\ UNCHANGED <<grouperVars, coordVars, wsVars, planVars, tokenVars>>

\* the request in flight resolves, lines 246-261
ExecRequestSucceeds ==
    /\ inv.status = "request"
    /\ inv' = OnSuccess(inv, ResultOf(inv, apiKeys))
    /\ attemptLog' = LogOutcome(attemptLog, now, Succeeded)
    /\ UNCHANGED <<grouperVars, coordVars, wsVars, planVars, tokenVars>>

\* the request in flight rejects with `message`, lines 262-323
ExecRequestRejects(message) ==
    /\ inv.status = "request"
    /\ inv' = OnFailure(inv, message, apiKeys)
    /\ attemptLog' = LogOutcome(attemptLog, now, Failed(message))
    /\ UNCHANGED <<grouperVars, coordVars, wsVars, planVars, tokenVars>>

\* the same, the rotatable rejections being limited to MaxAttempts - 1
ExecRequestFails(message) ==
    /\ isRotatableError(message) => Len(attemptLog) < MaxAttempts
    /\ ExecRequestRejects(message)

\* the time the backoff timer of the last failed attempt is due, line 311
BackoffDue == attemptLog[Len(attemptLog)].endedAt + BackoffMs

\* the backoff timer fires and the loop condition is evaluated again,
\* lines 311-312, 233
ExecBackoffElapsed ==
    /\ inv.status = "backoff"
    /\ now >= BackoffDue
    /\ LET e == LoopHead(inv, now, apiKeys)
       IN  /\ inv' = e
           /\ attemptLog' = LogAttempt(attemptLog, e, now, apiKeys)
    /\ UNCHANGED <<grouperVars, coordVars, wsVars, planVars, tokenVars>>

\* the clock reaches the time the backoff timer is due
ExecTickToTimer ==
    /\ inv.status = "backoff"
    /\ now < BackoffDue
    /\ now' = BackoffDue
    /\ UNCHANGED <<hpc, nGroups, apiKeys, tasks, completionOrder, response>>
    /\ UNCHANGED <<grouperVars, execVars, wsVars, planVars, tokenVars>>

\* the clock passes the deadline while a request or the timer is pending
ExecTickLong ==
    /\ inv.status \in {"request", "backoff"}
    /\ LoopCondition(inv, now)
    /\ now' = now + maxDurationMs
    /\ UNCHANGED <<hpc, nGroups, apiKeys, tasks, completionOrder, response>>
    /\ UNCHANGED <<grouperVars, execVars, wsVars, planVars, tokenVars>>

NextExecutor ==
    \/ Invoke
    \/ ExecRequestSucceeds
    \/ \E m \in ExecutorErrors : ExecRequestFails(m)
    \/ ExecBackoffElapsed
    \/ ExecTickToTimer
    \/ ExecTickLong

SpecExecutor == InitExecutor /\ [][NextExecutor]_vars

(***************************************************************************)
(* retryWithApiKeyRotation run to its end.  The number of attempts is not  *)
(* limited: the provider may reject every request, and only the clock ends *)
(* the loop.  A request settles at once unless the clock jumps; the timer  *)
(* of line 311 makes every rotatable failure cost BackoffMs.               *)
(*   Fairness: requestFn settles (the hypothesis that every work call      *)
(* completes), a timer that is due fires (the event loop runs the callback *)
(* of setTimeout), and the clock reaches a pending timer (time advances).  *)
(***************************************************************************)
TerminationErrors == {<<"429">>, <<"fetch failed">>}

ExecRequestSettles ==
    \/ ExecRequestSucceeds
    \/ \E m \in TerminationErrors : ExecRequestRejects(m)

NextTermination ==
    \/ Invoke
    \/ ExecRequestSucceeds
    \/ \E m \in TerminationErrors : ExecRequestRejects(m)
    \/ ExecBackoffElapsed
    \/ ExecTickToTimer
    \/ ExecTickLong

SpecTermination ==
    /\ InitExecutor
    /\ [][NextTermination]_vars
    /\ WF_vars(ExecRequestSettles)
    /\ WF_vars(ExecBackoffElapsed)
    /\ WF_vars(ExecTickToTimer)

(***************************************************************************)
(* The classification of the catch block (lines 273-284) observed on the   *)
(* first attempt of an invocation, over messages put together from the     *)
(* tested substrings and from texts close to them.                         *)
(***************************************************************************)
MaxPhrases == 2

MessagePhrases ==
    RotatableSignatures
        \cup {"try again later", "Please", "Quota", "quotas", "rate", "limit",
              "rate limits", "Rate Limit", "[429 Too Many Requests]",
              "The model is overloaded.", "Service unavailable", "fetch failed"}

RECURSIVE MessagesOf(_)
MessagesOf(n) ==
    IF n = 0 THEN {NoError}
    ELSE LET shorter == MessagesOf(n - 1)
         IN  shorter \cup {Append(m, ph) : m \in shorter, ph \in MessagePhrases}

ClassifierErrors == MessagesOf(MaxPhrases)

\* the first request of the invocation rejects, with any of the messages
FirstRequestFails ==
    /\ inv.status = "request"
    /\ inv.attemptCount = 1
    /\ \E m \in ClassifierErrors : ExecRequestFails(m)

\* one invocation over a pool of two credentials
InitClassifier ==
    /\ IdleGrouper
    /\ now = 0
    /\ hpc = "idle"
    /\ nGroups = 0
    /\ apiKeys = SubSeq(KeyNames, 1, 2)
    /\ tasks = <<>>
    /\ completionOrder = <<>>
    /\ response = NoResponse
    /\ IdleExecutor
    /\ IdleWorkspace
    /\ IdlePlan
    /\ IdleTokens

NextClassifier ==
    \/ Invoke
    \/ FirstRequestFails
    \/ ExecRequestSucceeds
    \/ ExecBackoffElapsed
    \/ ExecTickToTimer

SpecClassifier == InitClassifier /\ [][NextClassifier]_vars

(***************************************************************************)
(* WorkspaceManager (src/unnamed/part_003, lines 203-276) under            *)
(* set_repository requests.  A request is served by the case of the        *)
(* request handler (src/unnamed/part_000, lines 2696-2710), which calls    *)
(* setWorkspace and answers with the path, or by the registered tool       *)
(* (src/unnamed/part_001, lines 12-20), which calls setRepositoryLogic.    *)
(* Either way setWorkspace runs; its awaits (rm, mkdtemp, the clone) are   *)
(* the points where the handlers of other requests may run.                *)
(* A call is [via, pc, repoUrl, prior, pathToClean, tempDir, answer]:      *)
(*   via: "case" (the case of part_000) | "tool" (setRepositoryLogic)      *)
(*   pc: "rm" | "mkdtemp" | "clone" (awaiting that operation)              *)
(*       | "done" (returned the workspace) | "failed" (threw)              *)
(*   prior: localPath of the workspace that was current at the call, or    *)
(*          NoPath.                                                        *)
(*   answer: what the caller of setWorkspace comes to once setWorkspace    *)
(*          has returned: the workspace, and for setRepositoryLogic        *)
(*          (workspaceSetter/logic.ts, lines 22-43) the usage analysis.    *)
(***************************************************************************)
RepoUrls == {"https://github.com/o/a", "https://github.com/o/b"}

DirExists(ds, p) == p \in DOMAIN ds /\ ds[p]

\* variant: the directory is left in place
RemoveDirNoop(ds, p) == ds

\* rm(pathToClean, { recursive: true, force: true }), line 271: removes the
\* directory; no error when it is already gone
RemoveDir(ds, p) == [q \in DOMAIN ds |-> IF q = p THEN FALSE ELSE ds[q]]

\* mkdtemp(path.join(os.tmpdir(), "mcp-workspace-")), line 228: a directory
\* with a name not used before
MakeTempDir(ds) == Append(ds, TRUE)
NewTempDir(ds) == Len(ds) + 1

\* the Workspace object built at line 247
Workspace(repoUrl, localPath) ==
    [present |-> TRUE, repoUrl |-> repoUrl, localPath |-> localPath]

\* variant: the scan walks the temporary directory made last, whatever the
\* slot names
getTokenUsageLogicNewestDir(slot, ds) ==
    [threw |-> ~slot.present \/ ~DirExists(ds, Len(ds)),
     workspaceInfo |-> slot,
     scanned |-> IF slot.present THEN Len(ds) ELSE NoPath]

\* getTokenUsageLogic (lines 35-66) called with `slot` in the singleton and
\* the directories ds on disk: it throws without a workspace (lines 40-44),
\* else it walks slot.localPath with readdirSync/statSync/readFileSync
\* (line 47, lines 78-127: no await, so nothing runs during the scan; a
\* missing directory makes readdirSync throw) and reports the slot's
\* workspace (lines 55-59).
getTokenUsageLogic(slot, ds) ==
    [threw |-> ~slot.present \/ ~DirExists(ds, slot.localPath),
     workspaceInfo |-> slot,
     scanned |-> IF slot.present THEN slot.localPath ELSE NoPath]

NoAnswer ==
    [returned |-> FALSE, workspace |-> NoWorkspace,
     usageAnalysis |-> [threw |-> FALSE, workspaceInfo |-> NoWorkspace, scanned |-> NoPath]]

\* setRepositoryLogic after setWorkspace has returned workspaceInfo
\* (logic.ts lines 30-42).  The promise of setWorkspace is resolved by the
\* job that assigned the slot, so the continuation of line 30 and the call
\* of line 36 run as microtasks of that job, before the callback of any
\* other request's rm, mkdtemp or clone: `slot` is the singleton as that job
\* left it.
setRepositoryLogic(workspaceInfo, slot, ds) ==
    LET tokenUsage == getTokenUsageLogic(slot, ds)
    IN  [returned |-> ~tokenUsage.threw, workspace |-> workspaceInfo,
         usageAnalysis |-> tokenUsage]

\* the case of part_000 after setWorkspace has returned workspaceInfo
\* (lines 2700-2704): it answers with the path and analyses nothing
setRepositoryCase(workspaceInfo) ==
    [returned |-> TRUE, workspace |-> workspaceInfo,
     usageAnalysis |-> NoAnswer.usageAnalysis]

\* setWorkspace up to its first await, lines 220-228 and 264-271: with a
\* current workspace it enters cleanup and awaits rm; without one it awaits
\* mkdtemp
EnterSetWorkspace(via, repoUrl, ws) ==
    IF ws.present
    THEN [via |-> via, pc |-> "rm", repoUrl |-> repoUrl, prior |-> ws.localPath,
          pathToClean |-> ws.localPath, tempDir |-> NoPath, answer |-> NoAnswer]
    ELSE [via |-> via, pc |-> "mkdtemp", repoUrl |-> repoUrl, prior |-> NoPath,
          pathToClean |-> NoPath, tempDir |-> NoPath, answer |-> NoAnswer]

InFlight(c) == calls[c].pc \in {"rm", "mkdtemp", "clone"}

InitWorkspace ==
    /\ IdleGrouper
    /\ IdleCoordinator
    /\ IdleExecutor
    /\ IdleWorkspace
    /\ IdlePlan
    /\ IdleTokens

\* a set_repository request arrives and its handler calls setWorkspace,
\* part_000 lines 2696-2700
SetRepository(repoUrl) ==
    /\ Len(calls) < MaxCalls
    /\ calls' = Append(calls, EnterSetWorkspace("case", repoUrl, currentWorkspace))
    /\ UNCHANGED <<currentWorkspace, tempDirs>>
    /\ UNCHANGED <<grouperVars, coordVars, execVars, planVars, tokenVars>>

\* a set_repository request arrives at the registered tool, whose handler
\* calls setRepositoryLogic and that setWorkspace, part_001 lines 12-20 and
\* logic.ts lines 22-30
SetRepositoryTool(repoUrl) ==
    /\ Len(calls) < MaxCalls
    /\ calls' = Append(calls, EnterSetWorkspace("tool", repoUrl, currentWorkspace))
    /\ UNCHANGED <<currentWorkspace, tempDirs>>
    /\ UNCHANGED <<grouperVars, coordVars, execVars, planVars, tokenVars>>

\* rm has completed: cleanup clears the slot (line 272) and returns;
\* setWorkspace goes on to await mkdtemp (line 228)
RmDone(c) ==
    /\ calls[c].pc = "rm"
    /\ tempDirs' = RemoveDir(tempDirs, calls[c].pathToClean)
    /\ currentWorkspace' = NoWorkspace
    /\ calls' = [calls EXCEPT ![c].pc = "mkdtemp"]
    /\ UNCHANGED <<grouperVars, coordVars, execVars, planVars, tokenVars>>

\* mkdtemp has made the directory; setWorkspace goes on to await the clone
\* (lines 228-244)
MkdtempDone(c) ==
    /\ calls[c].pc = "mkdtemp"
    /\ tempDirs' = MakeTempDir(tempDirs)
    /\ calls' = [calls EXCEPT ![c].pc = "clone", ![c].tempDir = NewTempDir(tempDirs)]
    /\ UNCHANGED currentWorkspace
    /\ UNCHANGED <<grouperVars, coordVars, execVars, planVars, tokenVars>>

\* mkdtemp rejects: setWorkspace throws
MkdtempFails(c) ==
    /\ calls[c].pc = "mkdtemp"
    /\ calls' = [calls EXCEPT ![c].pc = "failed"]
    /\ UNCHANGED <<currentWorkspace, tempDirs>>
    /\ UNCHANGED <<grouperVars, coordVars, execVars, planVars, tokenVars>>

\* the clone has succeeded: the slot is assigned and returned, lines
\* 244-248, and the caller goes on: the case of part_000 to its answer,
\* setRepositoryLogic to the token analysis, logic.ts line 36
CloneDone(c) ==
    /\ calls[c].pc = "clone"
    /\ currentWorkspace' = Workspace(calls[c].repoUrl, calls[c].tempDir)
    /\ calls' = [calls EXCEPT ![c].pc = "done",
                              ![c].answer =
                                  IF calls[c].via = "tool"
                                  THEN setRepositoryLogic(currentWorkspace',
                                                          currentWorkspace', tempDirs)
                                  ELSE setRepositoryCase(currentWorkspace')]
    /\ UNCHANGED tempDirs
    /\ UNCHANGED <<grouperVars, coordVars, execVars, planVars, tokenVars>>

\* the clone fails: execPromise rejects and setWorkspace throws, line 244
CloneFails(c) ==
    /\ calls[c].pc = "clone"
    /\ calls' = [calls EXCEPT ![c].pc = "failed"]
    /\ UNCHANGED <<currentWorkspace, tempDirs>>
    /\ UNCHANGED <<grouperVars, coordVars, execVars, planVars, tokenVars>>

NextWorkspace ==
    \/ \E u \in RepoUrls : SetRepository(u)
    \/ \E u \in RepoUrls : SetRepositoryTool(u)
    \/ \E c \in DOMAIN calls : RmDone(c)
    \/ \E c \in DOMAIN calls : MkdtempDone(c)
    \/ \E c \in DOMAIN calls : MkdtempFails(c)
    \/ \E c \in DOMAIN calls : CloneDone(c)
    \/ \E c \in DOMAIN calls : CloneFails(c)

SpecWorkspace == InitWorkspace /\ [][NextWorkspace]_vars

(***************************************************************************)
(* project_orchestrator_analyze from the request to the launch (lines      *)
(* 2462-2539), followed by the coordinator's actions above.                *)
(* A path is the string of its characters.  The text of fileGroupsData is *)
(* [parses, data]: whether JSON.parse accepts it and the value it yields;  *)
(* data is [hasGroups, groups] and a group of the plan is                  *)
(* [hasFiles, files, totalTokens, groupIndex] with files a list of         *)
(* [filePath, tokens].                                                     *)
(***************************************************************************)
\* DANGEROUS_PATHS, lines 70-87
DANGEROUS_PATHS ==
    {"/etc", "/usr/bin", "/bin", "/sbin", "/boot", "/sys", "/proc",
     "/mnt/c/Windows", "/mnt/c/Program Files", "/mnt/c/ProgramData",
     "C:\\Windows", "C:\\Program Files", "C:\\ProgramData",
     "/root", "/var/log", "/var/lib"}

\* the directory names of ALLOWED_PATH_PATTERNS, lines 90-94
WorkDirs == {"Projects", "Development", "Dev", "Code", "Workspace"}

\* the lower-case form of the ASCII capital letters
LowerOf ==
    ("A" :> "a") @@ ("B" :> "b") @@ ("C" :> "c") @@ ("D" :> "d") @@ ("E" :> "e") @@
    ("F" :> "f") @@ ("G" :> "g") @@ ("H" :> "h") @@ ("I" :> "i") @@ ("J" :> "j") @@
    ("K" :> "k") @@ ("L" :> "l") @@ ("M" :> "m") @@ ("N" :> "n") @@ ("O" :> "o") @@
    ("P" :> "p") @@ ("Q" :> "q") @@ ("R" :> "r") @@ ("S" :> "s") @@ ("T" :> "t") @@
    ("U" :> "u") @@ ("V" :> "v") @@ ("W" :> "w") @@ ("X" :> "x") @@ ("Y" :> "y") @@
    ("Z" :> "z")

\* the character at position i of a string
CharAt(str, i) == SubSeq(str, i, i)

\* String.prototype.toLowerCase, on ASCII text
RECURSIVE toLowerCase(_)
toLowerCase(str) ==
    IF str = "" THEN ""
    ELSE LET c == CharAt(str, 1)
         IN  (IF c \in DOMAIN LowerOf THEN LowerOf[c] ELSE c)
             \o toLowerCase(SubSeq(str, 2, Len(str)))

\* String.prototype.startsWith, character for character
StartsWith(str, prefix) == Len(prefix) <= Len(str) /\ SubSeq(str, 1, Len(prefix)) = prefix

\* replace(/\\/g, "/")
RECURSIVE SlashesForBackslashes(_)
SlashesForBackslashes(str) ==
    IF str = "" THEN ""
    ELSE (IF CharAt(str, 1) = "\\" THEN "/" ELSE CharAt(str, 1))
         \o SlashesForBackslashes(SubSeq(str, 2, Len(str)))

\* lines 104-113: a Windows drive path becomes /mnt/<drive>/..., a UNC path
\* loses its first backslash, any other path is taken as it is
normalizedPathOf(projectPath) ==
    IF /\ Len(projectPath) >= 3
       /\ toLowerCase(CharAt(projectPath, 1)) \in {LowerOf[c] : c \in DOMAIN LowerOf}
       /\ SubSeq(projectPath, 2, 3) = ":\\"
    THEN "/mnt/" \o toLowerCase(CharAt(projectPath, 1)) \o "/"
         \o SlashesForBackslashes(SubSeq(projectPath, 4, Len(projectPath)))
    ELSE IF StartsWith(projectPath, "\\\\")
         THEN SubSeq(SlashesForBackslashes(projectPath), 2, Len(projectPath))
         ELSE projectPath

\* lines 114-117: some dangerous path is a prefix of the path, letter case
\* apart
IsDangerous(normalizedPath) ==
    LET lower == toLowerCase(normalizedPath)
    IN  \E d \in DANGEROUS_PATHS : StartsWith(lower, toLowerCase(d))

\* /^\/home\/[^\/]+\/<rest>/ on lower-case text: "/home/", one or more
\* characters other than "/", then "/" and `rest`
UnderHome(lower, rest) ==
    /\ StartsWith(lower, "/home/")
    /\ \E k \in 7 .. Len(lower) :
          /\ \A j \in 7 .. k : CharAt(lower, j) # "/"
          /\ StartsWith(SubSeq(lower, k + 1, Len(lower)), "/" \o rest)

\* pattern.test(str) for some pattern of ALLOWED_PATH_PATTERNS, lines 89-97;
\* the first five carry the flag i and none is anchored at its end
MatchesAllowedPattern(str) ==
    LET lower == toLowerCase(str)
    IN  \/ \E d \in WorkDirs \cup {"Users"} : StartsWith(lower, "/mnt/c/" \o toLowerCase(d))
        \/ \E d \in WorkDirs : UnderHome(lower, toLowerCase(d))
        \/ StartsWith(lower, "/mnt/c/projects/")
        \/ StartsWith(lower, "/mnt/c/users/")
        \/ \E d \in WorkDirs : UnderHome(lower, toLowerCase(d) \o "/")
        \/ str \in {".", ".."}
        \/ StartsWith(str, "./")

\* lines 126-128: a pattern matches the normalized path or the path as given
IsAllowed(normalizedPath, projectPath) ==
    MatchesAllowedPattern(normalizedPath) \/ MatchesAllowedPattern(projectPath)

\* variant: every path is accepted
normalizeProjectPathUnchecked(projectPath) ==
    [threw |-> FALSE, error |-> NoError, path |-> normalizedPathOf(projectPath)]

\* normalizeProjectPath, lines 101-138
normalizeProjectPath(projectPath) ==
    LET normalizedPath == normalizedPathOf(projectPath)
    IN  IF IsDangerous(normalizedPath)
        THEN [threw |-> TRUE, path |-> normalizedPath,
              error |-> <<"Access denied: Path", "'" \o projectPath \o "'",
                          "is restricted for security reasons. Please use workspace/project directories only.">>]
        ELSE IF ~IsAllowed(normalizedPath, projectPath)
             THEN [threw |-> TRUE, path |-> normalizedPath,
                   error |-> <<"Access denied: Path", "'" \o projectPath \o "'",
                               "is not in an allowed workspace directory. Please use paths like 'C:\\Users\\YourName\\Projects' or '/home/user/Projects'.">>]
             ELSE [threw |-> FALSE, error |-> NoError, path |-> normalizedPath]

\* the longest fileGroupsData the schema admits, line 676
FileGroupsDataMax == 50000

\* ProjectOrchestratorAnalyzeSchema.parse, lines 659-690, 2464-2466, on the
\* question (a string of 1 to 2000 characters, lines 666-669) and on
\* fileGroupsData (a string of 1 to 50000 characters, lines 673-676): the
\* messages of the issues zod collects, in the order of the schema's
\* fields, or NoError
SchemaError(req) ==
    (IF Len(req.question) < 1 THEN <<"String must contain at least 1 character(s)">>
     ELSE IF Len(req.question) > 2000 THEN <<"String must contain at most 2000 character(s)">>
     ELSE NoError)
    \o (IF req.plan.chars < 1 THEN <<"String must contain at least 1 character(s)">>
        ELSE IF req.plan.chars > FileGroupsDataMax
             THEN <<"String must contain at most 50000 character(s)">>
        ELSE NoError)

\* The handler up to its first await, lines 2463-2495: the message of the
\* error thrown, or NoError when it reaches fs.stat.
ValidationError(req, keys) ==
    LET np == normalizeProjectPath(req.cwd)
    IN  IF SchemaError(req) # NoError THEN SchemaError(req)
        ELSE IF np.threw THEN np.error
        ELSE IF Len(keys) = 0
             THEN <<"At least one Gemini API key is required. Provide geminiApiKey, geminiApiKeys array, or set GEMINI_API_KEY environment variable. Get your key from https://makersuite.google.com/app/apikey">>
        ELSE IF ~req.plan.parses
             THEN <<"Invalid groups data JSON. Please ensure you copied the complete groups data from project_orchestrator_create step.">>
        ELSE NoError

\* the prompt analyzeGroup builds for a group, lines 2556-2579: its position,
\* the listing of its files and their contents, in the order of group.files
GroupPrompt(group, index, total) ==
    [position |-> index + 1, of |-> total,
     listing |-> [k \in DOMAIN group.files |->
                     [filePath |-> group.files[k].filePath, tokens |-> group.files[k].tokens]],
     context |-> [k \in DOMAIN group.files |->
                     [filePath |-> group.files[k].filePath, content |-> group.files[k].content]]]

\* ---- inputs ----
PlanPaths == {"a", "b"}
PlanFiles == {[filePath |-> q, tokens |-> 1] : q \in PlanPaths}
\* a group of a plan lists a path at most once
PlanFileLists ==
    {fl \in UNION {[1 .. n -> PlanFiles] : n \in 0 .. MaxPlanFiles} :
        \A i, j \in DOMAIN fl : fl[i] = fl[j] => i = j}
\* groups as the create step writes them, a group without a files list and
\* a group without totalTokens
PlanGroupShapes ==
    {[hasFiles |-> TRUE, files |-> fl, hasTotalTokens |-> TRUE, totalTokens |-> Len(fl)] :
        fl \in PlanFileLists}
    \cup {[hasFiles |-> FALSE, files |-> <<>>, hasTotalTokens |-> TRUE, totalTokens |-> 0],
          [hasFiles |-> TRUE, files |-> <<>>, hasTotalTokens |-> FALSE, totalTokens |-> 0]}
PlanGroupLists ==
    UNION {{[k \in 1 .. n |->
                [hasFiles |-> sh[k].hasFiles, files |-> sh[k].files,
                 hasTotalTokens |-> sh[k].hasTotalTokens,
                 totalTokens |-> sh[k].totalTokens, groupIndex |-> k - 1,
                 props |-> {}, name |-> "", description |-> "", reasoning |-> "",
                 customPrompt |-> ""]] :
            sh \in [1 .. n -> PlanGroupShapes]} : n \in 0 .. MaxPlanGroups}
\* totalProjectTokens (lines 2331-2340) of a project whose scanned files are
\* the files the groups list: the tokens of every file, each file once
RECURSIVE TokensOfFiles(_)
TokensOfFiles(fileSet) ==
    IF fileSet = {} THEN 0
    ELSE LET f == CHOOSE f \in fileSet : TRUE
         IN  f.tokens + TokensOfFiles(fileSet \ {f})
totalProjectTokens(gl) ==
    TokensOfFiles(UNION {{gl[k].files[j] : j \in DOMAIN gl[k].files} : k \in DOMAIN gl})
\* plans with and without the top-level totalTokens, JSON without a groups
\* list ("{}") and text that is not JSON ("{")
Plans ==
    {PlanOf([hasGroups |-> TRUE, groups |-> gl, hasTotalTokens |-> tt,
             totalTokens |-> IF tt THEN totalProjectTokens(gl) ELSE 0]) :
        gl \in PlanGroupLists, tt \in BOOLEAN}
    \cup {PlanOf(NoPlanData), [chars |-> 1, parses |-> FALSE, data |-> NoPlanData]}

\* the working directory of the server and what fs.stat finds there
WorkingDirectories ==
    {"/home/u/Projects/app", "/home/u", "/root/app", "/srv/app",
     "/etcetera", "/ETC/app", "/rootfs", "/usr/binary", "/var/logs/app",
     "/mnt/c/windows/app", "/home/u/projects", "/home/u/Projectsx", "/home/u/DevOps",
     "/home//Projects", "/mnt/c/DevOps", "/mnt/d/Projects",
     "C:\\Users\\u\\app", "C:\\Windows\\System32", "D:\\Projects\\app",
     "\\\\home\\u\\Code"}
StatResults == {"directory", "file", "ENOENT", "EACCES"}

\* the environment: an allowed working directory with every stat result, the
\* other working directories with a directory behind them
Environments ==
    {[cwd |-> "/home/u/Projects/app", stat |-> st] : st \in StatResults}
    \cup {[cwd |-> "/root/app", stat |-> "directory"]}

\* the questions: one of a character, the empty one, and the shortest one
\* over the schema's limit
LongQuestion ==
    LET TenTimes(str) == str \o str \o str \o str \o str \o str \o str \o str \o str \o str
        thousand == TenTimes(TenTimes(TenTimes("q")))
    IN  thousand \o thousand \o "q"
AnalyzeQuestions == {"q", "", LongQuestion}

\* a plan of one group of one file, for the requests that vary the working
\* directory or the question
OneFilePlan ==
    CHOOSE pl \in Plans :
        /\ pl.data.hasGroups /\ pl.data.hasTotalTokens
        /\ Len(pl.data.groups) = 1
        /\ Len(pl.data.groups[1].files) = 1

\* the texts of a plan at the limits of the schema: the empty string, and
\* the plan followed by spaces (JSON.parse skips them) up to the longest
\* string the schema admits and one character more
PlansAtTheLimits ==
    {[chars |-> 0, parses |-> FALSE, data |-> NoPlanData]}
    \cup {[OneFilePlan EXCEPT !.chars = n] : n \in {FileGroupsDataMax, FileGroupsDataMax + 1}}

\* every plan from the allowed working directory with every stat result and
\* a rejected working directory; one plan from every working directory and
\* with every question, and at every length and with every question
Requests ==
    {[plan |-> pl, question |-> "q", cwd |-> env.cwd, stat |-> env.stat, readable |-> rd] :
        pl \in Plans, env \in Environments, rd \in SUBSET PlanPaths}
    \cup {[plan |-> OneFilePlan, question |-> qu, cwd |-> d, stat |-> "directory",
           readable |-> PlanPaths] : qu \in AnalyzeQuestions, d \in WorkingDirectories}
    \cup {[plan |-> pl, question |-> qu, cwd |-> "/home/u/Projects/app", stat |-> "directory",
           readable |-> PlanPaths] : pl \in PlansAtTheLimits, qu \in AnalyzeQuestions}

InitAnalyze ==
    /\ IdleGrouper
    /\ IdleExecutor
    /\ IdleWorkspace
    /\ IdleTokens
    /\ now = 0
    /\ hpc = "received"
    /\ nGroups = 0
    /\ apiKeys \in {<<>>, SubSeq(KeyNames, 1, 2)}
    /\ tasks = <<>>
    /\ completionOrder = <<>>
    /\ response = NoResponse
    /\ request \in Requests
    /\ groups = <<>>
    /\ rehydration = NotReading

\* the handler runs up to `await fs.stat`, or throws into its catch block
\* (lines 2463-2499, 2662-2693)
Validate ==
    /\ hpc = "received"
    /\ LET message == ValidationError(request, apiKeys)
       IN  IF message # NoError
           THEN /\ response' = ErrorResponse(message)
                /\ hpc' = "returned"
           ELSE /\ hpc' = "stat"
                /\ UNCHANGED response
    /\ UNCHANGED <<now, nGroups, apiKeys, tasks, completionOrder>>
    /\ UNCHANGED <<grouperVars, execVars, wsVars, planVars, tokenVars>>

\* the handler goes on from where Rehydrate has brought it: it awaits the
\* read of a file, has left the loops, or has thrown into its catch block
\* (lines 2662-2693)
GoOn(res) ==
    /\ hpc' = res.pc
    /\ response' = IF res.error # NoError THEN ErrorResponse(res.error) ELSE response
    /\ groups' = res.groups
    /\ rehydration' = res.rehydration
    /\ nGroups' = IF res.pc = "ready" THEN Len(res.groups) ELSE nGroups

\* fs.stat has settled: the handler throws into its catch block or enters
\* the loops of the reconstruction (lines 2497-2515)
StatDone ==
    /\ hpc = "stat"
    /\ LET message == StatError(request)
       IN  IF message # NoError
           THEN /\ response' = ErrorResponse(message)
                /\ hpc' = "returned"
                /\ UNCHANGED <<nGroups, groups, rehydration>>
           ELSE GoOn(Rehydrate(request.plan.data.groups, <<>>,
                               [NotReading EXCEPT !.group = 1, !.file = 1]))
    /\ UNCHANGED <<now, apiKeys, tasks, completionOrder, request>>
    /\ UNCHANGED <<grouperVars, execVars, wsVars, tokenVars>>

\* the fs.readFile awaited (line 2515) has settled, with the content of the
\* file if the disk holds a readable file there at that time and with a
\* rejection otherwise (lines 2516-2527); the loops go on
ReadDone ==
    /\ hpc = "reading"
    /\ LET groupData == request.plan.data.groups[rehydration.group]
           fileData == groupData.files[rehydration.file]
           read == ReadFile(fileData, request.readable)
           rd == [group |-> rehydration.group,
                  file |-> rehydration.file + 1,
                  files |-> rehydration.files \o read,
                  warnings |-> IF read = <<>>
                               THEN Append(rehydration.warnings,
                                           [group |-> rehydration.group,
                                            filePath |-> fileData.filePath])
                               ELSE rehydration.warnings]
       IN  GoOn(Rehydrate(request.plan.data.groups, groups, rd))
    /\ UNCHANGED <<now, apiKeys, tasks, completionOrder, request>>
    /\ UNCHANGED <<grouperVars, execVars, wsVars, tokenVars>>

\* while a read is awaited, the file it reads is removed or made unreadable,
\* or is put back: `readable` is the set of the paths that can be read.
\* What happens to the other files of the project shows to the handler only
\* when it reads them, and is taken then.  (What happens to the disk before
\* the first read is in the choice of the request's `readable`.)
DiskChanges ==
    /\ hpc = "reading"
    /\ LET groupData == request.plan.data.groups[rehydration.group]
           filePath == groupData.files[rehydration.file].filePath
       IN  request' = [request EXCEPT !.readable = IF filePath \in @ THEN @ \ {filePath}
                                                   ELSE @ \cup {filePath}]
    /\ UNCHANGED <<groups, rehydration>>
    /\ UNCHANGED <<grouperVars, coordVars, execVars, wsVars, tokenVars>>

NextAnalyze ==
    \/ Validate
    \/ StatDone
    \/ ReadDone
    \/ DiskChanges
    \/ Launch
    \/ \E i \in DOMAIN tasks : DelayElapsed(i)
    \/ \E i \in DOMAIN tasks : RequestSucceeds(i)
    \/ \E i \in DOMAIN tasks : RequestFails(i, <<"fetch failed">>)
    \/ Return
    \/ TickToTimer

SpecAnalyze == InitAnalyze /\ [][NextAnalyze]_vars

(***************************************************************************)
(* The grouper as a state machine.                                         *)
(***************************************************************************)

\* five files of 200,000 tokens each
LargeManifest == [i \in 1 .. 5 |-> [filePath |-> PathNames[i], tokens |-> 200000]]

InitAlgorithmic ==
    /\ \/ files \in Manifests /\ maxTokensPerGroup \in Ceilings
       \/ files = LargeManifest /\ maxTokensPerGroup = DefaultCeiling
    /\ aiCall = NoAiCall
    /\ fileGroups = <<>>
    /\ gpc = "input"
    /\ IdleCoordinator
    /\ IdleExecutor
    /\ IdleWorkspace
    /\ IdlePlan
    /\ IdleTokens

\* createFileGroupsWithAI is about to be called with a pool of one credential
InitAssisted ==
    /\ files \in AiManifests
    /\ maxTokensPerGroup \in Ceilings
    /\ aiCall \in AiCalls
    /\ fileGroups = <<>>
    /\ gpc = "input"
    /\ now = 0
    /\ hpc = "idle"
    /\ nGroups = 0
    /\ apiKeys = SubSeq(KeyNames, 1, 1)
    /\ tasks = <<>>
    /\ completionOrder = <<>>
    /\ response = NoResponse
    /\ IdleExecutor
    /\ IdleWorkspace
    /\ IdlePlan
    /\ IdleTokens

RunAlgorithmic ==
    /\ gpc = "input"
    /\ fileGroups' = createFileGroupsAlgorithmic(files, maxTokensPerGroup, 0)
    /\ gpc' = "algorithmic"
    /\ UNCHANGED <<files, maxTokensPerGroup, aiCall>>
    /\ UNCHANGED <<coordVars, execVars, wsVars, planVars, tokenVars>>

\* createFileGroupsWithAI is called and runs up to `await
\* retryWithApiKeyRotation` (lines 3033-3118): the grouping request of the
\* executor's first attempt is in flight
RunWithAI ==
    /\ gpc = "input"
    /\ aiCall.executor # "none"
    /\ inv.status = "idle"
    /\ LET e == LoopHead(NewInvocation(now), now, apiKeys)
       IN  /\ inv' = e
           /\ attemptLog' = LogAttempt(attemptLog, e, now, apiKeys)
    /\ gpc' = "grouping"
    /\ UNCHANGED <<files, maxTokensPerGroup, aiCall, fileGroups>>
    /\ UNCHANGED <<coordVars, wsVars, planVars, tokenVars>>

\* the message the grouping request rejects with when the executor is to
\* throw
GroupingError == <<"fetch failed">>

\* the grouping request settles as aiCall says: the executor returns the
\* provider's answer (line 261) or rethrows its rejection (line 322)
GroupingRequestSettles ==
    /\ inv.status = "request"
    /\ IF aiCall.executor = "throws"
       THEN /\ inv' = OnFailure(inv, GroupingError, apiKeys)
            /\ attemptLog' = LogOutcome(attemptLog, now, Failed(GroupingError))
       ELSE /\ inv' = OnSuccess(inv, ResultOf(inv, apiKeys))
            /\ attemptLog' = LogOutcome(attemptLog, now, Succeeded)

\* the executor has settled and createFileGroupsWithAI runs to its return
\* (lines 3120-3216)
GroupingAnswered ==
    /\ gpc = "grouping"
    /\ GroupingRequestSettles
    /\ fileGroups' = createFileGroupsWithAI(files, maxTokensPerGroup, aiCall)
    /\ gpc' = "assisted"
    /\ UNCHANGED <<files, maxTokensPerGroup, aiCall>>
    /\ UNCHANGED <<coordVars, wsVars, planVars, tokenVars>>

NextAlgorithmic == RunAlgorithmic
NextAssisted == RunWithAI \/ GroupingAnswered

SpecAlgorithmic == InitAlgorithmic /\ [][NextAlgorithmic]_vars
SpecAssisted == InitAssisted /\ [][NextAssisted]_vars

(***************************************************************************)
(* The estimators applied to a text that grows (SpecEstimator).            *)
(***************************************************************************)
MaxTextLen == 5        \* characters of the estimated text

\* a space, a newline, a special character and the letters of a keyword
Alphabet == {" ", "\n", ";", "l", "e", "t"}

\* what getFileTokenInfo (line 3010) and validateTokenLimit (line 428)
\* compute for a text
Estimates(t) == [tokens |-> calculateTokens(t), fileTokens |-> calculateFileTokens(t)]

InitEstimator ==
    /\ IdleGrouper
    /\ IdleCoordinator
    /\ IdleExecutor
    /\ IdleWorkspace
    /\ IdlePlan
    /\ fileContent = <<>>
    /\ estimate = Estimates(<<>>)
    /\ prompt = NoPrompt

\* the content is extended by the character c and estimated again
EstimateExtended(c) ==
    /\ TextLength(fileContent) < MaxTextLen
    /\ fileContent' = AppendChar(fileContent, c)
    /\ estimate' = Estimates(AppendChar(fileContent, c))
    /\ UNCHANGED prompt
    /\ UNCHANGED <<grouperVars, coordVars, execVars, wsVars, planVars>>

NextEstimator == \E c \in Alphabet : EstimateExtended(c)

SpecEstimator == InitEstimator /\ [][NextEstimator]_vars

(***************************************************************************)
(* gemini_codebase_analyzer from the prepared context to its response      *)
(* (lines 1817-1906): SpecSingleShot.                                      *)
(***************************************************************************)
MaxSlack == 3          \* how far below the limit the context's estimate starts

\* n copies of the character c
Run(c, n) == <<[ch |-> c, n |-> n]>>

\* the system prompt of every single-shot analysis, the literal of lines
\* 1830-1842: 888 characters, of which 12 newlines, 130 spaces, 10 full
\* stops, 6 commas, 5 hyphens and a pair of parentheses; the other 723 are
\* 721 letters and digits and 2 colons (written as one run, the estimator
\* telling only newlines, spaces and special characters apart).
\* calculateTokens makes 222 + 6 + 13 + 5 = 246 of it.
generalSystemPrompt ==
    Run("a", 723) \o Run("\n", 12) \o Run(" ", 130) \o Run(".", 10) \o Run(",", 6)
        \o Run("-", 5) \o Run("(", 1) \o Run(")", 1)

\* what prepareFullContext makes of a project whose one readable file is
\* "a", lines 2919-2921: the header, the content and two newlines
ContextOfFile(content) ==
    Run("-", 3) \o Run(" ", 1) \o Run("F", 1) \o Run("i", 1) \o Run("l", 1) \o Run("e", 1)
        \o Run(":", 1) \o Run(" ", 1) \o Run("a", 1) \o Run(" ", 1) \o Run("-", 3)
        \o Run("\n", 1) \o content \o Run("\n", 2)

\* the contexts of a project of one file, of letters only or ending in a
\* newline, that leave, with the system prompt, from 0 to MaxSlack tokens
\* under the limit for the question (the header and the two newlines are
\* 18 characters, estimated at 5 tokens over their length / 4); and the
\* context of a project without a readable file
Contexts ==
    LET room == GEMINI_25_PRO_TOKEN_LIMIT - calculateTokens(generalSystemPrompt)
    IN  {<<>>}
            \cup {ContextOfFile(Run("x", 4 * (room - k) - 38)) : k \in 0 .. MaxSlack}
            \cup {ContextOfFile(Run("x", 4 * (room - k) - 39) \o Run("\n", 1)) :
                      k \in 0 .. MaxSlack}
Questions == {Run("q", 1), Run("q", 5), Run("q", 3) \o Run(" ", 1), Run("q", 12)}
Prompts ==
    [fullContext : Contexts, systemPrompt : {generalSystemPrompt}, question : Questions]

\* the response of lines 1880-1906: it carries response.text()
AnalysisResponse ==
    [isError |-> FALSE, groupResults |-> <<[kind |-> "text", group |-> 0, message |-> <<>>]>>,
     report |-> NoReport, error |-> NoError]

InitSingleShot ==
    /\ IdleGrouper
    /\ IdleExecutor
    /\ IdleWorkspace
    /\ IdlePlan
    /\ now = 0
    /\ hpc = "context"
    /\ nGroups = 0
    /\ apiKeys \in {SubSeq(KeyNames, 1, n) : n \in 1 .. 2}
    /\ tasks = <<>>
    /\ completionOrder = <<>>
    /\ response = NoResponse
    /\ fileContent = <<>>
    /\ estimate = [tokens |-> 0, fileTokens |-> 0]
    /\ prompt \in Prompts

\* what the handler throws between prepareFullContext and the executor
\* call: lines 1822-1824, then validateTokenLimit at line 1854
SingleShotError(p) ==
    IF TextLength(p.fullContext) = 0
    THEN <<"No readable files found in the project directory">>
    ELSE validateTokenLimit(p.fullContext, p.systemPrompt, p.question)

\* the handler runs from the prepared context to `await
\* retryWithApiKeyRotation` (line 1870), or throws into its catch block
CheckAndCall ==
    /\ hpc = "context"
    /\ IF SingleShotError(prompt) # NoError
       THEN /\ hpc' = "returned"
            /\ response' = ErrorResponse(SingleShotError(prompt))
            /\ UNCHANGED execVars
       ELSE /\ hpc' = "calling"
            /\ LET e == LoopHead(NewInvocation(now), now, apiKeys)
               IN  /\ inv' = e
                   /\ attemptLog' = LogAttempt(attemptLog, e, now, apiKeys)
            /\ UNCHANGED response
    /\ UNCHANGED <<now, nGroups, apiKeys, tasks, completionOrder>>
    /\ UNCHANGED <<grouperVars, wsVars, planVars, tokenVars>>

\* the executor call settled: the response, or the catch block's
SingleShotReturn ==
    /\ hpc = "calling"
    /\ inv.status \in {"returned", "threw"}
    /\ hpc' = "returned"
    /\ response' = IF inv.status = "returned" THEN AnalysisResponse
                   ELSE ErrorResponse(inv.error)
    /\ UNCHANGED <<now, nGroups, apiKeys, tasks, completionOrder>>
    /\ UNCHANGED <<grouperVars, execVars, wsVars, planVars, tokenVars>>

NextSingleShot ==
    \/ CheckAndCall
    \/ ExecRequestSucceeds
    \/ ExecRequestFails(<<"SAFETY">>)
    \/ SingleShotReturn

SpecSingleShot == InitSingleShot /\ [][NextSingleShot]_vars

(***************************************************************************)
(* The plan from project_orchestrator_create to the re-hydration of        *)
(* project_orchestrator_analyze (lines 2343-2369, 2462-2539):              *)
(* SpecRoundTrip.                                                          *)
(***************************************************************************)
\* files: g.files.map((f) => ({ filePath: f.filePath, tokens: f.tokens })),
\* lines 2354-2357: the content is left out
SerializeFile(f) == [filePath |-> f.filePath, tokens |-> f.tokens]

\* JSON.stringify leaves out a property whose value is undefined
WrittenProps(g) == {p \in OptionalProps : g[p] # Undefined}
Written(g, p) == IF g[p] # Undefined THEN g[p][1] ELSE ""

\* one element of groups.map(...), lines 2353-2364, as JSON.parse returns it
SerializeGroup(g) ==
    [hasFiles |-> TRUE,
     files |-> [k \in DOMAIN g.files |-> SerializeFile(g.files[k])],
     hasTotalTokens |-> TRUE,
     totalTokens |-> g.totalTokens,
     groupIndex |-> g.groupIndex,
     props |-> WrittenProps(g),
     name |-> Written(g, "name"),
     description |-> Written(g, "description"),
     reasoning |-> Written(g, "reasoning"),
     customPrompt |-> Written(g, "customPrompt")]

\* the object of lines 2351-2369, as JSON.parse returns it
SerializePlan(fileGroupList, fs, normalizedPath, maxTokens) ==
    [hasGroups |-> TRUE,
     groups |-> [k \in DOMAIN fileGroupList |-> SerializeGroup(fileGroupList[k])],
     totalFiles |-> Len(fs),
     hasTotalTokens |-> TRUE,
     totalTokens |-> SumTokens(fs),
     projectPath |-> normalizedPath,
     maxTokensPerGroup |-> maxTokens]

\* a specialized instruction of 50,000 characters: createFileGroupsWithAI
\* copies the strings of the answer whatever their length (lines 3171-3179)
LongInstruction ==
    LET TenTimes(str) == str \o str \o str \o str \o str \o str \o str \o str \o str \o str
        tenThousand == TenTimes(TenTimes(TenTimes(TenTimes("p"))))
    IN  tenThousand \o tenThousand \o tenThousand \o tenThousand \o tenThousand

\* what the provider answers the grouping request with: every proposal of
\* total size up to 3, a proposal of one group whose name may be the text
\* "undefined" and whose instruction is long, the text "undefined" or
\* empty, or a failure
TripAiCalls ==
    {[executor |-> "returns", fenced |-> TRUE, braces |-> TRUE, parses |-> TRUE,
      data |-> [hasGroups |-> TRUE, groups |-> p]] : p \in AiProposals(3)}
    \cup {[executor |-> "returns", fenced |-> TRUE, braces |-> TRUE, parses |-> TRUE,
           data |-> [hasGroups |-> TRUE,
                     groups |-> <<[name |-> nm, description |-> "the core",
                                   reasoning |-> "cohesion", customPrompt |-> cp,
                                   hasFiles |-> TRUE, files |-> <<"a">>]>>]] :
              nm \in {"core", "undefined"}, cp \in {LongInstruction, "undefined", ""}}
    \cup {[executor |-> "throws", fenced |-> FALSE, braces |-> FALSE, parses |-> FALSE,
           data |-> NoData]}

\* the least ceiling ProjectOrchestratorCreateSchema admits, line 648
MinCeiling == 100000

\* the ceilings of a create request: a multiple of the least one, or the
\* default the handler takes when the request names none (line 2293)
CreateCeilings == {MinCeiling * c : c \in 1 .. MaxCeil} \cup {DefaultCeiling}

\* the manifests the scan of lines 2323-2340 builds: files whose estimates
\* are multiples of the least ceiling
CreateManifests ==
    {[i \in DOMAIN m |-> [filePath |-> m[i].filePath, tokens |-> MinCeiling * m[i].tokens]] :
        m \in AiManifests}

\* project_orchestrator_create has parsed its request, scanned the project
\* and is about to call createFileGroupsWithAI (line 2343)
InitRoundTrip ==
    /\ files \in CreateManifests
    /\ maxTokensPerGroup \in CreateCeilings
    /\ aiCall \in TripAiCalls
    /\ fileGroups = <<>>
    /\ gpc = "input"
    /\ now = 0
    /\ hpc = "idle"
    /\ nGroups = 0
    /\ apiKeys = SubSeq(KeyNames, 1, 2)
    /\ tasks = <<>>
    /\ completionOrder = <<>>
    /\ response = NoResponse
    /\ IdleExecutor
    /\ IdleWorkspace
    /\ IdlePlan
    /\ IdleTokens

\* the grouping request of project_orchestrator_create has settled: the
\* manifest is grouped and the handler returns the plan (lines 2343-2384).
\* The caller holds the plan; `request` is the request they will send it
\* back with, every file of the manifest being readable so far.
CreatePlan ==
    /\ gpc = "grouping"
    /\ hpc = "idle"
    /\ GroupingRequestSettles
    /\ LET created == createFileGroupsWithAI(files, maxTokensPerGroup, aiCall)
       IN  /\ fileGroups' = created
           /\ request' = [plan |-> PlanOf(SerializePlan(created, files,
                                                        normalizedPathOf("/home/u/Projects/app"),
                                                        maxTokensPerGroup)),
                          question |-> "q",
                          cwd |-> "/home/u/Projects/app",
                          stat |-> "directory",
                          readable |-> {files[i].filePath : i \in DOMAIN files}]
    /\ gpc' = "assisted"
    /\ hpc' = "created"
    /\ UNCHANGED <<files, maxTokensPerGroup, aiCall, groups, rehydration>>
    /\ UNCHANGED <<now, nGroups, apiKeys, tasks, completionOrder, response>>
    /\ UNCHANGED <<wsVars, tokenVars>>

\* between the two tool calls the server is back in its event loop and
\* keeps nothing of the plan: a file of the project is removed or made
\* unreadable, or is put back
DiskChangesBetweenCalls(filePath) ==
    /\ hpc = "created"
    /\ request' = [request EXCEPT !.readable = IF filePath \in @ THEN @ \ {filePath}
                                                ELSE @ \cup {filePath}]
    /\ UNCHANGED <<groups, rehydration>>
    /\ UNCHANGED <<grouperVars, coordVars, execVars, wsVars, tokenVars>>

\* project_orchestrator_analyze is called with the plan (line 2462)
AnalyzeReceived ==
    /\ hpc = "created"
    /\ hpc' = "received"
    /\ UNCHANGED <<now, nGroups, apiKeys, tasks, completionOrder, response>>
    /\ UNCHANGED <<grouperVars, execVars, wsVars, planVars, tokenVars>>

NextRoundTrip ==
    \/ RunWithAI
    \/ CreatePlan
    \/ \E i \in DOMAIN files : DiskChangesBetweenCalls(files[i].filePath)
    \/ AnalyzeReceived
    \/ Validate
    \/ StatDone
    \/ ReadDone
    \/ DiskChanges

SpecRoundTrip == InitRoundTrip /\ [][NextRoundTrip]_vars

(***************************************************************************)
(* Properties of the Batch Analysis Coordinator (SpecCoordinator).         *)
(***************************************************************************)
Returned == hpc = "returned"
ThrewTasks == {i \in DOMAIN tasks : tasks[i].exec.status = "threw"}
ReturnedTasks == {i \in DOMAIN tasks : tasks[i].exec.status = "returned"}

\* C1: failure isolation.  Whatever subset of the groups fails (a
\* non-rotatable error, or the retry-exhausted error), the coordinator
\* completes without an error: once every task is done the handler can
\* return, its response is not an error, each failing group's outcome is
\* the failure marker of that group with the message of the error its own
\* executor threw, and every other group's outcome is the text of its own
\* analysis.
C1_FailureIsolation ==
    /\ (hpc = "launched" /\ \A i \in DOMAIN tasks : tasks[i].pc = "done") => ENABLED Return
    /\ Returned =>
        /\ ~response.isError
        /\ Len(response.groupResults) = nGroups
        /\ \A i \in ThrewTasks :
              /\ response.groupResults[i].kind = "failed"
              /\ response.groupResults[i].group = i
              /\ response.groupResults[i].message = tasks[i].exec.error
              /\ tasks[i].exec.error =
                    IF isRotatableError(tasks[i].exec.lastError)
                    THEN TimeoutError(tasks[i].exec, apiKeys)
                    ELSE tasks[i].exec.lastError
        /\ \A i \in ReturnedTasks :
              /\ response.groupResults[i].kind = "text"
              /\ response.groupResults[i].group = i

\* C1 witness: 3 groups, group 2 failed, the outcomes are [success, failed, success].
C1_Witness ==
    /\ Returned
    /\ nGroups = 3
    /\ ThrewTasks = {2}
    /\ response.groupResults[1].kind = "text"
    /\ response.groupResults[2].kind = "failed"
    /\ response.groupResults[3].kind = "text"

\* C2: order preservation.  Whatever the completion order, element i of the
\* result list and section i of the report are the outcome of input group i.
C2_OrderPreserved ==
    Returned =>
        /\ DOMAIN response.groupResults = DOMAIN tasks
        /\ DOMAIN response.report.sections = DOMAIN tasks
        /\ \A i \in DOMAIN tasks :
              /\ response.groupResults[i] = tasks[i].promise.value
              /\ response.groupResults[i].group = i
              /\ response.report.sections[i].label = i
              /\ response.report.sections[i].body = tasks[i].promise.value

\* C2 witness: the coordinator returned after the groups completed out of
\* index order.
C2_Witness ==
    /\ Returned
    /\ Len(completionOrder) = nGroups
    /\ \E k \in 1 .. (Len(completionOrder) - 1) : completionOrder[k] > completionOrder[k + 1]

\* C3: the coordinator has returned only if every group's analysis has
\* resolved: no task is waiting for its timer, has a request in flight or is
\* backing off.
C3_ReturnsAfterAllResolved ==
    Returned =>
        \A i \in DOMAIN tasks :
            /\ tasks[i].pc = "done"
            /\ tasks[i].exec.status \in {"returned", "threw"}
            /\ tasks[i].promise.state = "fulfilled"

\* C3 witness: a run of several groups that returned after a group used up
\* its deadline.
C3_Witness ==
    /\ Returned
    /\ nGroups >= 2
    /\ \E i \in ThrewTasks : now - tasks[i].exec.startTime >= maxDurationMs

(***************************************************************************)
(* Properties of the File Grouper (SpecAlgorithmic, SpecAssisted).         *)
(***************************************************************************)
GroupedFiles == FlatFiles(fileGroups)
ManifestPaths == {files[i].filePath : i \in DOMAIN files}

\* a group respects the ceiling, or is one file that alone exceeds it
WithinCeiling(g) ==
    \/ g.totalTokens <= maxTokensPerGroup /\ SumTokens(g.files) <= maxTokensPerGroup
    \/ Len(g.files) = 1 /\ g.files[1].tokens > maxTokensPerGroup

\* C4: the deterministic strategy returns a partition of the manifest: each
\* manifest file is in exactly one group, and every grouped file is a
\* manifest file.
C4_AlgorithmicPartition ==
    gpc = "algorithmic" =>
        /\ \A i \in DOMAIN files : Occurrences(GroupedFiles, files[i].filePath) = 1
        /\ \A k \in DOMAIN GroupedFiles : \E i \in DOMAIN files : GroupedFiles[k] = files[i]

\* C4 witness: a manifest with a zero-cost file and an oversized file, packed
\* into at least three groups.
C4_Witness ==
    /\ gpc = "algorithmic"
    /\ Len(fileGroups) >= 3
    /\ \E i \in DOMAIN files : files[i].tokens = 0
    /\ \E i \in DOMAIN files : files[i].tokens > maxTokensPerGroup

\* C5: every group of the deterministic strategy costs at most the ceiling,
\* except a group of exactly one file whose own cost exceeds the ceiling.
C5_AlgorithmicCeiling ==
    gpc = "algorithmic" => \A k \in DOMAIN fileGroups : WithinCeiling(fileGroups[k])

\* C5 witness: a group of several files filled exactly to the ceiling, next
\* to a one-file group above the ceiling.
C5_Witness ==
    /\ gpc = "algorithmic"
    /\ \E k \in DOMAIN fileGroups :
          Len(fileGroups[k].files) >= 2 /\ fileGroups[k].totalTokens = maxTokensPerGroup
    /\ \E k \in DOMAIN fileGroups : fileGroups[k].totalTokens > maxTokensPerGroup

\* C6 (as claimed): the group costs add up to the manifest's costs, for the
\* deterministic strategy and for the assisted strategy under any proposal.
C6_CostConservation ==
    gpc \in {"algorithmic", "assisted"} => SumGroupTokens(fileGroups) = SumTokens(files)

\* the proposed groups of a response the assisted strategy accepts
ProposedGroups == aiCall.data.groups

\* the assisted call fails: the executor throws, the response holds no JSON,
\* the JSON does not parse, or the object lacks the groups list or a group's
\* files list
AssistedCallFails ==
    \/ aiCall.executor = "throws"
    \/ ~aiCall.fenced /\ ~aiCall.braces
    \/ ~aiCall.parses
    \/ ~aiCall.data.hasGroups
    \/ \E k \in DOMAIN ProposedGroups : ~ProposedGroups[k].hasFiles

\* the manifest paths some proposed group lists
ClaimedPaths ==
    {p \in ManifestPaths :
        \E k \in DOMAIN ProposedGroups :
            \E j \in DOMAIN ProposedGroups[k].files : ProposedGroups[k].files[j] = p}

\* C7: the assisted strategy drops no file: every manifest file is in at
\* least one returned group, and a file no proposed group lists is in exactly
\* one group, which is a group of the deterministic strategy.
C7_AssistedDropsNoFile ==
    gpc = "assisted" =>
        /\ \A i \in DOMAIN files : Occurrences(GroupedFiles, files[i].filePath) >= 1
        /\ ~AssistedCallFails =>
              \A i \in DOMAIN files :
                  files[i].filePath \notin ClaimedPaths =>
                      /\ Occurrences(GroupedFiles, files[i].filePath) = 1
                      /\ \E k \in DOMAIN fileGroups :
                            /\ fileGroups[k].name = Undefined
                            /\ \E j \in DOMAIN fileGroups[k].files :
                                  fileGroups[k].files[j] = files[i]

\* C7 witness: a proposal that parses, lists one of three manifest files and
\* an unknown path, and leaves two files to the deterministic strategy.
C7_Witness ==
    /\ gpc = "assisted"
    /\ ~AssistedCallFails
    /\ Len(files) = 3
    /\ Cardinality(ClaimedPaths) = 1
    /\ \E k \in DOMAIN ProposedGroups :
          \E j \in DOMAIN ProposedGroups[k].files : ProposedGroups[k].files[j] = UnknownPath

\* C8 (as claimed): under any proposal that parses, no file is in more than
\* one returned group or more than once in a group.
C8_AssistedNoDuplicates ==
    (gpc = "assisted" /\ ~AssistedCallFails) =>
        \A i \in DOMAIN files : Occurrences(GroupedFiles, files[i].filePath) <= 1

\* C9: no group returned by the assisted strategy costs more than the
\* ceiling, except a group of one file that alone exceeds it.
C9_AssistedCeiling ==
    gpc = "assisted" => \A k \in DOMAIN fileGroups : WithinCeiling(fileGroups[k])

\* C9 witness: a proposal that parses and holds a group of at least two
\* files, none of them oversized, whose total exceeds the ceiling.
C9_Witness ==
    /\ gpc = "assisted"
    /\ ~AssistedCallFails
    /\ \E k \in DOMAIN ProposedGroups :
          LET groupFiles == ResolveFiles(files, ProposedGroups[k].files)
          IN  /\ Len(groupFiles) >= 2
              /\ SumTokens(groupFiles) > maxTokensPerGroup
              /\ \A j \in DOMAIN groupFiles : groupFiles[j].tokens <= maxTokensPerGroup

\* C10: whenever the assisted call fails, the assisted strategy returns
\* exactly the groups of the deterministic strategy for the whole manifest
\* and the same ceiling, each manifest file in exactly one of them.
C10_AssistedFallback ==
    (gpc = "assisted" /\ AssistedCallFails) =>
        /\ fileGroups = createFileGroupsAlgorithmic(files, maxTokensPerGroup, 0)
        /\ \A i \in DOMAIN files : Occurrences(GroupedFiles, files[i].filePath) = 1

\* C10 witness: the first proposed group lists a manifest file, a later one
\* has no files list; the groups built so far are abandoned.
C10_Witness ==
    /\ gpc = "assisted"
    /\ aiCall.executor = "returns" /\ aiCall.parses /\ aiCall.data.hasGroups
    /\ Len(files) >= 2
    /\ Len(ProposedGroups) >= 2
    /\ ProposedGroups[1].hasFiles
    /\ \E j \in DOMAIN ProposedGroups[1].files : ProposedGroups[1].files[j] \in ManifestPaths
    /\ ~ProposedGroups[2].hasFiles

(***************************************************************************)
(* Claims about the Credential Rotation Executor observed alone            *)
(* (SpecExecutor).                                                         *)
(***************************************************************************)
PoolSize == Len(apiKeys)
Attempts == DOMAIN attemptLog
LastAttempt == attemptLog[Len(attemptLog)]
\* the attempts that have failed with a rotatable error so far
RotatedAttempts ==
    {n \in Attempts : /\ attemptLog[n].outcome.kind = "error"
                      /\ isRotatableError(attemptLog[n].outcome.message)}
TimedOut == inv.status = "threw" /\ inv.error = TimeoutError(inv, apiKeys)

\* C11: while every failure is rotatable, attempt n uses the credential at
\* position (n - 1) mod pool size: each rotatable failure moves the cursor
\* by exactly one position modulo the pool size, and the next attempt starts
\* no earlier than the fixed backoff after the failure it follows.  With a
\* pool of one credential every retry uses that same credential.
C11_RotationOrder ==
    /\ \A n \in Attempts : attemptLog[n].key = apiKeys[((n - 1) % PoolSize) + 1]
    /\ \A n \in Attempts : n > 1 =>
          /\ (n - 1) \in RotatedAttempts
          /\ attemptLog[n].startedAt >= attemptLog[n - 1].endedAt + BackoffMs
    /\ inv.status # "idle" => inv.currentKeyIndex = Cardinality(RotatedAttempts) % PoolSize
    /\ PoolSize = 1 => \A n \in Attempts : attemptLog[n].key = apiKeys[1]

\* a pool of several credentials has wrapped around: an attempt beyond the
\* pool size has been made after rotatable failures only
C11_Witness ==
    /\ PoolSize > 1
    /\ Len(attemptLog) > PoolSize
    /\ Cardinality(RotatedAttempts) >= PoolSize
    /\ LastAttempt.key = apiKeys[1]

\* the attempt in flight is rejected in this step with a non-rotatable error
FatalRejection ==
    /\ inv.status = "request"
    /\ Len(attemptLog') = Len(attemptLog)
    /\ attemptLog'[Len(attemptLog')].outcome.kind = "error"
    /\ ~isRotatableError(attemptLog'[Len(attemptLog')].outcome.message)

\* C12: a non-rotatable failure is rethrown at once: in the very step that
\* rejects the attempt the invocation throws that same error, with the
\* cursor and the attempt count as they were and no time spent backing off,
\* however many rotatable failures came before; and an invocation that has
\* thrown makes no further attempt.  On the first attempt this leaves
\* exactly one attempt.
C12_FatalRethrown ==
    /\ [][FatalRejection =>
            /\ inv'.status = "threw"
            /\ inv'.error = attemptLog'[Len(attemptLog')].outcome.message
            /\ inv'.currentKeyIndex = inv.currentKeyIndex
            /\ inv'.attemptCount = inv.attemptCount
            /\ inv'.attemptCount = Len(attemptLog')
            /\ now' = now]_vars
    /\ [][inv.status = "threw" => UNCHANGED <<inv, attemptLog>>]_vars

\* a non-rotatable error was thrown after rotatable failures
C12_Witness ==
    /\ inv.status = "threw"
    /\ LastAttempt.outcome.kind = "error"
    /\ ~isRotatableError(LastAttempt.outcome.message)
    /\ inv.error = LastAttempt.outcome.message
    /\ Cardinality(RotatedAttempts) >= 2
    /\ inv.attemptCount = Cardinality(RotatedAttempts) + 1

\* C13: the first attempt that succeeds ends the invocation: it returns that
\* attempt's result in the step the request resolves, every earlier attempt
\* failed with a rotatable error, no attempt follows, and the attempt count
\* is the number k of the successful attempt.
C13_FirstSuccessWins ==
    /\ \A k \in Attempts : attemptLog[k].outcome.kind = "ok" =>
          /\ k = Len(attemptLog)
          /\ inv.status = "returned"
          /\ inv.result = [attempt |-> k, key |-> attemptLog[k].key]
          /\ inv.attemptCount = k
          /\ \A n \in 1 .. (k - 1) : n \in RotatedAttempts
    /\ inv.status = "returned" => LastAttempt.outcome.kind = "ok"

\* a pool of three credentials, two rotatable failures, success on the third
\* attempt: three attempts on three different credentials
C13_Witness ==
    /\ inv.status = "returned"
    /\ PoolSize = 3
    /\ inv.attemptCount = 3
    /\ Len(attemptLog) = 3
    /\ Cardinality({attemptLog[n].key : n \in Attempts}) = 3
    /\ inv.result.key = apiKeys[3]

Elapsed == now - inv.startTime
AllFailuresRotatable ==
    \A n \in Attempts : attemptLog[n].outcome.kind = "error" => n \in RotatedAttempts

\* C14: the timeout error is thrown only at an elapsed time of at least the
\* deadline (4 minutes after the invocation started); an invocation whose
\* failures were all rotatable throws nothing else; and whenever the backoff
\* ends at an elapsed time below the deadline the invocation makes another
\* attempt.
C14_DeadlineBounded ==
    /\ [](TimedOut => Elapsed >= maxDurationMs)
    /\ []((inv.status = "threw" /\ AllFailuresRotatable) =>
             (TimedOut /\ Elapsed >= maxDurationMs))
    /\ [][(inv.status = "backoff" /\ inv' # inv) =>
            IF Elapsed < maxDurationMs
            THEN /\ inv'.status = "request"
                 /\ inv'.attemptCount = inv.attemptCount + 1
                 /\ Len(attemptLog') = Len(attemptLog) + 1
            ELSE /\ inv'.status = "threw"
                 /\ inv'.error = TimeoutError(inv, apiKeys)
                 /\ attemptLog' = attemptLog]_vars

\* the timeout error was thrown after several rotatable failures, the
\* deadline having passed
C14_Witness ==
    /\ TimedOut
    /\ Elapsed >= maxDurationMs
    /\ Len(attemptLog) >= 2
    /\ AllFailuresRotatable

\* the credentials that were handed to an attempt
KeysTried == {attemptLog[n].key : n \in Attempts}

\* C15: the exhaustion error states the number of attempts actually made,
\* the number of credentials that were actually attempted (not merely the
\* pool size) and the message of the last failed attempt.
C15_ExhaustionReport ==
    TimedOut =>
        inv.error =
            <<"Gemini API requests failed after 4 minutes with", ToString(Len(attemptLog)),
              "attempts across", ToString(Cardinality(KeysTried)),
              "API keys. All keys hit rate limits. Last error:">>
            \o LastAttempt.outcome.message

(***************************************************************************)
(* Claims about concurrent invocations of the executor (SpecCoordinator:   *)
(* one invocation per analyzeGroup task, all over the same pool).          *)
(***************************************************************************)
\* task i's invocation of the executor begins in this step
InvocationStarts(i) ==
    /\ tasks'[i].exec.status # "idle"
    /\ i \in DOMAIN tasks => tasks[i].exec.status = "idle"

\* C16: every invocation begins with the cursor at position 0, its first
\* attempt being attempt 1, no error observed and a start time (hence a
\* deadline) taken at its own call; and a step of one invocation leaves the
\* cursor, attempt count, start time and every other local of each
\* concurrently running invocation unchanged.
C16_InvocationsIndependent ==
    [][/\ \A i \in DOMAIN tasks' : InvocationStarts(i) =>
             /\ tasks'[i].exec.startTime = now'
             /\ tasks'[i].exec.currentKeyIndex = 0
             /\ tasks'[i].exec.attemptCount = 1
             /\ tasks'[i].exec.lastError = NoError
       /\ \A i, j \in DOMAIN tasks :
             (i # j /\ tasks'[j].exec # tasks[j].exec) => tasks'[i].exec = tasks[i].exec]_vars

\* two invocations run concurrently over the same pool: one has rotated to
\* the second credential, the other, started later, is on its first attempt
\* with the first credential
C16_Witness ==
    \E i, j \in DOMAIN tasks :
        /\ i # j
        /\ tasks[i].exec.status = "backoff"
        /\ tasks[i].exec.currentKeyIndex = 1
        /\ tasks[j].exec.status = "request"
        /\ tasks[j].exec.currentKeyIndex = 0
        /\ tasks[j].exec.attemptCount = 1
        /\ tasks[j].exec.startTime > tasks[i].exec.startTime

(***************************************************************************)
(* Claims about the WorkspaceManager (SpecWorkspace).                      *)
(***************************************************************************)
\* the setWorkspace calls that have started and not yet completed
CallsInFlight == {c \in DOMAIN calls : InFlight(c)}

\* C17: workspace setup is serialized: at no time are two setWorkspace calls
\* between their start and their completion.
C17_SetupSerialized == Cardinality(CallsInFlight) <= 1

\* call c issues mkdtemp in this step (on entering setWorkspace without a
\* current workspace, or on returning from cleanup)
IssuesMkdtemp(c) ==
    /\ calls'[c].pc = "mkdtemp"
    /\ c \in DOMAIN calls => calls[c].pc # "mkdtemp"

\* C18: tear-down precedes setup.  A setWorkspace call made while a
\* workspace is current goes through cleanup first: when it turns to making
\* its new temporary directory the prior workspace's directory has been
\* removed and the slot is empty, and the new directory is made only after
\* that; when the call succeeds the current workspace is the new one (its
\* repository, its new directory) and the prior directory does not exist.
C18_TeardownBeforeSetup ==
    /\ [][\A c \in DOMAIN calls' :
            /\ IssuesMkdtemp(c) =>
                  /\ ~currentWorkspace'.present
                  /\ calls'[c].prior # NoPath =>
                        /\ c \in DOMAIN calls
                        /\ calls[c].pc = "rm"
                        /\ ~DirExists(tempDirs', calls'[c].prior)
            /\ (c \in DOMAIN calls /\ calls[c].pc # "clone" /\ calls'[c].pc = "clone") =>
                  /\ calls[c].pc = "mkdtemp"
                  /\ ~DirExists(tempDirs, calls'[c].tempDir)
                  /\ DirExists(tempDirs', calls'[c].tempDir)
                  /\ ~DirExists(tempDirs', calls'[c].prior)
            /\ (c \in DOMAIN calls /\ calls[c].pc # "done" /\ calls'[c].pc = "done") =>
                  /\ currentWorkspace' = Workspace(calls[c].repoUrl, calls[c].tempDir)
                  /\ DirExists(tempDirs', calls[c].tempDir)
                  /\ calls[c].tempDir # calls[c].prior
                  /\ ~DirExists(tempDirs', calls[c].prior)]_vars
    /\ [](\A c \in DOMAIN calls :
            (calls[c].prior # NoPath /\ calls[c].pc \in {"mkdtemp", "clone", "done", "failed"}) =>
                ~DirExists(tempDirs, calls[c].prior))

\* a call made while a workspace was current has succeeded: the slot holds
\* its new workspace and the prior directory is gone
C18_Witness ==
    \E c \in DOMAIN calls :
        /\ calls[c].pc = "done"
        /\ calls[c].prior # NoPath
        /\ currentWorkspace = Workspace(calls[c].repoUrl, calls[c].tempDir)
        /\ ~DirExists(tempDirs, calls[c].prior)
        /\ DirExists(tempDirs, calls[c].tempDir)

(***************************************************************************)
(* Claims about the analyze step's validation and re-hydration             *)
(* (SpecAnalyze).                                                          *)
(***************************************************************************)
PlanGroups == request.plan.data.groups
\* the files of group k of the plan whose read failed
Skipped(k) ==
    {rehydration.warnings[n].filePath :
        n \in {m \in DOMAIN rehydration.warnings : rehydration.warnings[m].group = k}}

\* the files of plan group k whose read succeeded, in plan order
Remaining(k) == SelectSeq(PlanGroups[k].files, LAMBDA fileData : fileData.filePath \notin Skipped(k))

\* the working directories normalizeProjectPath rejects
OutOfScope(projectPath) ==
    \/ IsDangerous(normalizedPathOf(projectPath))
    \/ ~IsAllowed(normalizedPathOf(projectPath), projectPath)
RejectedWorkingDirectories == {d \in WorkingDirectories : OutOfScope(d)}

OutsideAllowedScope ==
    IF request.cwd \in WorkingDirectories
    THEN request.cwd \in RejectedWorkingDirectories
    ELSE OutOfScope(request.cwd)

\* a request that passes the analyze step's validation: credentials, a
\* working directory in scope that is a directory, a plan that parses and
\* lists groups of files
PassesValidation ==
    /\ SchemaError(request) = NoError
    /\ Len(apiKeys) > 0
    /\ ~OutsideAllowedScope
    /\ request.stat = "directory"
    /\ request.plan.parses
    /\ request.plan.data.hasGroups
    /\ \A k \in DOMAIN PlanGroups : PlanGroups[k].hasFiles

\* a request that passes validation and carries the token totals the create
\* step writes
WellFormedRequest ==
    /\ PassesValidation
    /\ request.plan.data.hasTotalTokens
    /\ \A k \in DOMAIN PlanGroups : PlanGroups[k].hasTotalTokens

\* a read that settles keeps the file exactly when the disk holds it
\* readable at that time, and logs a warning otherwise
ReadKeepsReadable ==
    (hpc = "reading" /\ rehydration' # rehydration) =>
        LET fileData == PlanGroups[rehydration.group].files[rehydration.file]
        IN  IF fileData.filePath \in request.readable
            THEN rehydration'.warnings = rehydration.warnings
            ELSE rehydration'.warnings =
                    Append(rehydration.warnings,
                           [group |-> rehydration.group, filePath |-> fileData.filePath])

\* once the loops are left, for a well-formed request: one group per group
\* of the plan, holding the plan's files without those whose read failed,
\* in plan order; one analysis per group; a response that is not an error
GroupsHoldFilesRead ==
    (hpc \in {"ready", "launched", "returned"} /\ WellFormedRequest) =>
        /\ Len(groups) = Len(PlanGroups)
        /\ \A k \in DOMAIN groups :
              /\ [j \in DOMAIN groups[k].files |->
                     [filePath |-> groups[k].files[j].filePath,
                      tokens |-> groups[k].files[j].tokens]] = Remaining(k)
              /\ GroupPrompt(groups[k], k - 1, Len(groups)).listing = Remaining(k)
              /\ groups[k].groupIndex = PlanGroups[k].groupIndex
        /\ hpc # "ready" => DOMAIN tasks = DOMAIN PlanGroups
        /\ hpc = "returned" =>
              /\ ~response.isError
              /\ Len(response.groupResults) = Len(PlanGroups)
              /\ \A k \in DOMAIN tasks :
                    /\ tasks[k].exec.attemptCount >= 1
                    /\ response.groupResults[k].group = k

\* C19: re-hydration skips unreadable files.  For a well-formed request,
\* whatever files of the plan cannot be read when their turn comes, the run
\* is not failed: a file is skipped exactly when its read fails, one group
\* is reconstructed per group of the plan, holding exactly the plan's files
\* that were read, in plan order (so does the prompt built from it), one
\* analysis is started per group, and the handler's response is not an
\* error and has one result per group, each group having had at least one
\* request sent for it.
C19_RehydrationSkipsUnreadable ==
    /\ []GroupsHoldFilesRead
    /\ [][ReadKeepsReadable]_vars

\* the handler has returned a report for a plan of two groups although a
\* file of the first group and every file of the second could not be read
C19_Witness ==
    /\ WellFormedRequest
    /\ hpc = "returned"
    /\ ~response.isError
    /\ Len(PlanGroups) = 2
    /\ Len(PlanGroups[1].files) = 2
    /\ Len(groups[1].files) = 1
    /\ PlanGroups[2].files # <<>>
    /\ groups[2].files = <<>>
    /\ response.groupResults[2].kind = "text"

\* C20: validation errors are rejected before any call to the provider.  A
\* plan text that is not JSON, JSON without a groups list, an empty
\* credential pool or a working directory outside the allowed scope never
\* lets an analysis start (no executor invocation, hence no attempt), and
\* the handler returns an error response carrying the error's message.
C20_RejectedBeforeAnyCall ==
    (\/ ~request.plan.parses
     \/ ~request.plan.data.hasGroups
     \/ Len(apiKeys) = 0
     \/ OutsideAllowedScope) =>
        /\ tasks = <<>>
        /\ groups = <<>>
        /\ hpc \in {"idle", "received", "stat", "returned"}
        /\ hpc = "returned" => (response.isError /\ response.error # NoError)

\* JSON without a groups list, sent with credentials from an allowed
\* directory, has been answered with an error response and no analysis
C20_Witness ==
    /\ hpc = "returned"
    /\ response.isError
    /\ request.plan.parses
    /\ ~request.plan.data.hasGroups
    /\ Len(apiKeys) > 0
    /\ ~OutsideAllowedScope
    /\ tasks = <<>>

(***************************************************************************)
(* Claims about the manifest, the token estimators and the report          *)
(***************************************************************************)
\* no file named by the plan can be read: skipping leaves an empty manifest
NoReadableFile == \A k \in DOMAIN PlanGroups : Remaining(k) = <<>>

\* C21 (as claimed, for the orchestrator's analyze step): when skipping the
\* unreadable files of a well-formed request leaves no file at all, no
\* analysis is started (no request is sent to the provider) and the handler
\* answers with a 'no readable files' error.
C21_EmptyManifestFatal ==
    (WellFormedRequest /\ NoReadableFile) =>
        /\ tasks = <<>>
        /\ hpc = "returned" =>
              /\ response.isError
              /\ includes(response.error, "No readable files found in the project directory")

\* the sum validateTokenLimit is claimed to compare with the limit
EstimateSum ==
    calculateTokens(prompt.fullContext) + calculateTokens(prompt.systemPrompt)
        + calculateTokens(prompt.question)
LimitCheckFails ==
    validateTokenLimit(prompt.fullContext, prompt.systemPrompt, prompt.question) # NoError

\* C22: the limit check fails exactly when the three estimates add up to
\* more than 1,000,000 (a sum equal to the limit passes), and it runs before
\* the first executor attempt: for a non-empty context over the limit no
\* attempt is ever made and the response is the limit error, while a context
\* within the limit is sent.
C22_LimitCheckedBeforeCall ==
    /\ LimitCheckFails <=> EstimateSum > GEMINI_25_PRO_TOKEN_LIMIT
    /\ (prompt.fullContext # <<>> /\ EstimateSum > GEMINI_25_PRO_TOKEN_LIMIT) =>
          /\ inv = NotInvoked
          /\ attemptLog = <<>>
          /\ hpc \in {"context", "returned"}
          /\ hpc = "returned" =>
                (response.isError /\ includes(response.error, "Token limit exceeded!"))
    /\ (prompt.fullContext # <<>> /\ EstimateSum <= GEMINI_25_PRO_TOKEN_LIMIT
            /\ hpc # "context") =>
          /\ Len(attemptLog) = 1
          /\ ~includes(response.error, "Token limit exceeded!")

\* C22 witness: a request whose estimates add up to exactly the limit has
\* been answered with the analysis
C22_Witness ==
    /\ EstimateSum = GEMINI_25_PRO_TOKEN_LIMIT
    /\ hpc = "returned"
    /\ ~response.isError
    /\ Len(attemptLog) = 1

\* C23: each estimator returns a natural number that is at least a quarter
\* of the text's length rounded up, and extending the text by any one
\* character never lowers either estimate.
C23_EstimatesBoundedBelowAndMonotone ==
    /\ estimate = Estimates(fileContent)
    /\ estimate.tokens \in Nat
    /\ estimate.fileTokens \in Nat
    /\ estimate.tokens >= CeilDiv(TextLength(fileContent), 4)
    /\ estimate.fileTokens >= CeilDiv(TextLength(fileContent), 4)
    /\ \A c \in Alphabet :
          /\ calculateTokens(AppendChar(fileContent, c)) >= estimate.tokens
          /\ calculateFileTokens(AppendChar(fileContent, c)) >= estimate.fileTokens

\* C23 witness: a text with a keyword and a run of spaces, for which the
\* file estimator returns more than the plain one and both exceed the base
C23_Witness ==
    /\ CountStructures(Chars(fileContent), 1) = 1
    /\ CountSpaceRuns(Chars(fileContent)) = 1
    /\ estimate.tokens > CeilDiv(TextLength(fileContent), 4)
    /\ estimate.fileTokens > estimate.tokens

\* C24: the aggregated report has exactly one labelled section per outcome:
\* as many sections as outcomes, section i labelled Group i and holding
\* outcome i unchanged, a failed group's marker like a successful group's
\* text; the header counts all of them.
C24_OneSectionPerOutcome ==
    Returned =>
        LET outcomes == response.groupResults
            report == response.report
        IN  /\ Len(report.sections) = Len(outcomes)
            /\ report.analysisGroups = Len(outcomes)
            /\ \A k \in DOMAIN outcomes :
                  report.sections[k] = [label |-> k, body |-> outcomes[k]]
            /\ {k \in DOMAIN report.sections : report.sections[k].body.kind = "failed"}
                   = ThrewTasks

\* C24 witness: a report of three sections, the first and the last holding a
\* failure marker, the second an analysis
C24_Witness ==
    /\ Returned
    /\ Len(response.report.sections) = 3
    /\ response.report.sections[1].body.kind = "failed"
    /\ response.report.sections[2].body.kind = "text"
    /\ response.report.sections[3].body.kind = "failed"

\* C25 (as claimed): the aggregator is a pure function of the outcomes, the
\* question and the mode: called again with the arguments of the call that
\* made the response's report, at the time of the launch, it returns the
\* same report.
C25_AggregatorPure ==
    Returned =>
        aggregateAnalysisResults(response.groupResults, request.question, Undefined, 0)
            = response.report

\* C26 (as claimed): once the request has passed validation, a run in which
\* some groups failed returns a response that is not an error and whose
\* report holds the outcome of every group.
C26_PartialSuccessesDelivered ==
    (PassesValidation /\ hpc = "returned" /\ ThrewTasks # {}) =>
        /\ ~response.isError
        /\ DOMAIN response.report.sections = DOMAIN tasks
        /\ \A k \in DOMAIN tasks : response.report.sections[k].body = tasks[k].promise.value

\* C27: every analysis is created at the launch, the first attempt of group
\* i (counted from 0) is issued no earlier than 700 ms x i after the launch,
\* which happens at time 0, and a group whose timer is due can start
\* whatever the other groups are doing.
C27_StaggeredLaunch ==
    hpc \in {"launched", "returned"} =>
        /\ DOMAIN tasks = 1 .. nGroups
        /\ \A i \in DOMAIN tasks :
              /\ tasks[i].pc = "delay" =>
                    /\ tasks[i].wake = StaggerMs * (i - 1)
                    /\ tasks[i].exec.attemptCount = 0
              /\ tasks[i].pc # "delay" => tasks[i].exec.startTime >= StaggerMs * (i - 1)
              /\ (tasks[i].pc = "delay" /\ now >= tasks[i].wake) => ENABLED DelayElapsed(i)

\* C27 witness: the third group has issued its first attempt 1400 ms after
\* the launch while the requests of the first two groups are still in flight
C27_Witness ==
    /\ hpc = "launched"
    /\ nGroups = 3
    /\ tasks[3].pc = "executing"
    /\ tasks[3].exec.attemptCount = 1
    /\ tasks[3].exec.startTime = 2 * StaggerMs
    /\ tasks[1].exec.status = "request"
    /\ tasks[2].exec.status = "request"

\* a re-hydrated file without the content read from disk
WithoutContent(f) == [filePath |-> f.filePath, tokens |-> f.tokens]

\* the re-hydrated groups are the created ones: as many, in the same order,
\* each with the same files in the same order and at the same cost and the
\* same totalTokens, groupIndex, name, description, reasoning and
\* specialized instruction
SameGroupsAsCreated ==
    /\ Len(groups) = Len(fileGroups)
    /\ \A k \in DOMAIN groups :
          /\ [j \in DOMAIN groups[k].files |-> WithoutContent(groups[k].files[j])]
                 = fileGroups[k].files
          /\ groups[k].totalTokens = fileGroups[k].totalTokens
          /\ groups[k].groupIndex = fileGroups[k].groupIndex
          /\ groups[k].name = fileGroups[k].name
          /\ groups[k].description = fileGroups[k].description
          /\ groups[k].reasoning = fileGroups[k].reasoning
          /\ groups[k].customPrompt = fileGroups[k].customPrompt

\* no file of the plan carries content
PlanWithoutContent ==
    \A k \in DOMAIN PlanGroups :
        \A j \in DOMAIN PlanGroups[k].files :
            DOMAIN PlanGroups[k].files[j] = {"filePath", "tokens"}

\* C28: the plan round-trips.  The plan the create step serialises carries
\* no file content, and the analyze step given that plan re-hydrates it:
\* it gets through its validation and the reconstruction to the launch,
\* and, every file being readable when it is read (no read has failed),
\* the groups it has then are the same in number and order as the created
\* ones, each with the same files in the same order and at the same cost,
\* the same totalTokens, groupIndex, name, description, reasoning and
\* specialized instruction.
C28_PlanRoundTrip ==
    /\ gpc = "assisted" => PlanWithoutContent
    /\ (gpc = "assisted" /\ hpc \notin {"created", "received", "stat", "reading"}) =>
          hpc = "ready"
    /\ (gpc = "assisted" /\ hpc = "ready" /\ rehydration.warnings = <<>>) =>
          SameGroupsAsCreated

\* The round trip as the code makes it: a created plan of at most 50,000
\* characters is re-hydrated, into the created groups when no read has
\* failed; a longer one is turned down by the schema of the analyze step
\* before anything of it is read.
PlanRoundTripWithinLimit ==
    /\ gpc = "assisted" => PlanWithoutContent
    /\ (gpc = "assisted" /\ hpc \notin {"created", "received", "stat", "reading"}) =>
          IF request.plan.chars <= FileGroupsDataMax
          THEN hpc = "ready"
          ELSE /\ hpc = "returned"
               /\ response = ErrorResponse(<<"String must contain at most 50000 character(s)">>)
               /\ groups = <<>>
    /\ (gpc = "assisted" /\ request.plan.chars > FileGroupsDataMax) =>
          hpc \in {"created", "received", "returned"}
    /\ (gpc = "assisted" /\ hpc = "ready" /\ rehydration.warnings = <<>>) =>
          SameGroupsAsCreated

\* a re-hydrated plan of a proposed group of two files with its
\* specialized instruction followed by a group of the deterministic strategy
PlanRehydrated ==
    /\ gpc = "assisted"
    /\ hpc = "ready"
    /\ rehydration.warnings = <<>>
    /\ Len(groups) >= 2
    /\ Len(groups[1].files) = 2
    /\ groups[1].customPrompt = StringValue("expert")
    /\ groups[Len(groups)].name = Undefined
    /\ groups[Len(groups)].files # <<>>

\* a created plan of more than 50,000 characters, every file of it still
\* readable, that the analyze step has turned down
CreatedPlanTurnedDown ==
    /\ gpc = "assisted"
    /\ hpc = "returned"
    /\ response.isError
    /\ request.plan.chars > FileGroupsDataMax
    /\ request.readable = {files[i].filePath : i \in DOMAIN files}
    /\ fileGroups # <<>>

\* the groups of the deterministic strategy that are not a single file
\* costing more than the ceiling, in output order
IsRegular(g) == ~(Len(g.files) = 1 /\ g.files[1].tokens > maxTokensPerGroup)
RegularGroups == SelectSeq(fileGroups, IsRegular)
AscendingCost(fs) == \A i, j \in DOMAIN fs : i < j => fs[i].tokens <= fs[j].tokens
\* every file of the manifest costs c
EqualCost(c) == files # <<>> /\ \A i \in DOMAIN files : files[i].tokens = c

\* C29: the deterministic strategy fills the groups greedily in ascending
\* cost order: the files of the regular groups, read group after group, are
\* in ascending cost order; a regular group was closed only because the
\* first file of the next regular group would have taken it over the
\* ceiling; so a manifest of files of one cost c, 0 < c <= ceiling, gives
\* groups of floor(ceiling / c) files except the last; and five files of
\* 200,000 under a ceiling of 900,000 give a group of four and a group of
\* one.
C29_GreedyClose ==
    gpc = "algorithmic" =>
        /\ AscendingCost(FlatFiles(RegularGroups))
        /\ \A k \in 1 .. (Len(RegularGroups) - 1) :
              RegularGroups[k].totalTokens + RegularGroups[k + 1].files[1].tokens
                  > maxTokensPerGroup
        /\ \A c \in 1 .. maxTokensPerGroup :
              EqualCost(c) =>
                  /\ \A k \in 1 .. (Len(fileGroups) - 1) :
                        Len(fileGroups[k].files) = maxTokensPerGroup \div c
                  /\ Len(fileGroups[Len(fileGroups)].files) \in 1 .. (maxTokensPerGroup \div c)
        /\ (files = LargeManifest /\ maxTokensPerGroup = DefaultCeiling) =>
              /\ Len(fileGroups) = 2
              /\ Len(fileGroups[1].files) = 4
              /\ Len(fileGroups[2].files) = 1

\* C29 witness: four files of cost 1 under a ceiling of 2 were packed into
\* two groups of two
C29_Witness ==
    /\ gpc = "algorithmic"
    /\ EqualCost(1)
    /\ maxTokensPerGroup = 2
    /\ Len(files) = 4
    /\ Len(fileGroups) = 2
    /\ Len(fileGroups[1].files) = 2

\* C30: every file of every group the assisted strategy returns is a file of
\* the manifest, whatever paths the proposal lists; a proposed path that is
\* not in the manifest adds no file and no cost: each group's cost is the
\* cost of its manifest files.
C30_UnknownPathsDropped ==
    gpc = "assisted" =>
        /\ \A k \in DOMAIN GroupedFiles :
              /\ GroupedFiles[k].filePath # UnknownPath
              /\ \E i \in DOMAIN files : GroupedFiles[k] = files[i]
        /\ \A k \in DOMAIN fileGroups :
              fileGroups[k].totalTokens = SumTokens(fileGroups[k].files)

\* C30 witness: a proposed group listing a manifest file and the unknown
\* path was accepted and returned with that one file at its cost
C30_Witness ==
    /\ gpc = "assisted"
    /\ ~AssistedCallFails
    /\ Len(ProposedGroups) >= 1
    /\ Len(ProposedGroups[1].files) = 2
    /\ \E j \in DOMAIN ProposedGroups[1].files : ProposedGroups[1].files[j] = UnknownPath
    /\ fileGroups[1].name = StringValue("core")
    /\ Len(fileGroups[1].files) = 1
    /\ fileGroups[1].totalTokens = fileGroups[1].files[1].tokens
    /\ fileGroups[1].totalTokens > 0


\* the attempts of the invocation that were rejected
RejectedAttempts == {n \in DOMAIN attemptLog : attemptLog[n].outcome.kind = "error"}

\* the invocation ended by rethrowing the rejection of attempt n
Rethrown(n) ==
    /\ n = Len(attemptLog)
    /\ inv.status = "threw"
    /\ inv.error = attemptLog[n].outcome.message

\* the signatures as the claim lists them
ListedSignatures ==
    {"429", "rate limit", "quota", "503", "overloaded",
     "try again later", "API key not valid"}

\* C31 (as claimed): a rejection is retried (not rethrown) exactly when its
\* message contains one of 429, "rate limit", "quota", 503, "overloaded",
\* "try again later", "API key not valid"; every other rejection, the one
\* without message included, is rethrown at once.
C31_ClassifiedAsListed ==
    \A n \in RejectedAttempts :
        LET message == attemptLog[n].outcome.message
        IN  ~Rethrown(n) <=> \E sig \in ListedSignatures : includes(message, sig)

\* the substrings that decide the classification
TestedSignatures ==
    {"429", "Too Many Requests", "rate limit", "quota",
     "503", "Service Unavailable", "overloaded",
     "Please try again later", "API key not valid"}

\* C31 (amended): a rejection is retried exactly when its message contains,
\* in this spelling and case, one of "429", "Too Many Requests", "rate limit",
\* "quota", "503", "Service Unavailable", "overloaded", "Please try again
\* later", "API key not valid"; every other rejection, the one without
\* message included, is rethrown at once with its own message.
C31_ClassifiedBySubstring ==
    \A n \in RejectedAttempts :
        LET message == attemptLog[n].outcome.message
        IN  ~Rethrown(n) <=> \E sig \in TestedSignatures : includes(message, sig)

\* C31 witness: "try again later" without "Please" has been rethrown after
\* one attempt
C31_Witness ==
    /\ Len(attemptLog) = 1
    /\ attemptLog[1].outcome = Failed(<<"try again later">>)
    /\ Rethrown(1)

\* the plan groups none of whose listed files could be read
AllFilesSkipped == {k \in DOMAIN PlanGroups : PlanGroups[k].files # <<>> /\ Remaining(k) = <<>>}

\* C32: once the coordinator has launched, there is one analysis task per
\* group of the plan, groups left without files included; a task never
\* invokes the executor more than once, has invoked it exactly once as soon
\* as its stagger delay is over, and hands it the whole credential pool; when
\* the handler answers, every group has had exactly one invocation.
C32_OneInvocationPerGroup ==
    (hpc = "launched" \/ tasks # <<>>) =>
        /\ Len(tasks) = Len(PlanGroups)
        /\ \A i \in DOMAIN tasks :
              /\ tasks[i].invocations = (IF tasks[i].pc = "delay" THEN 0 ELSE 1)
              /\ tasks[i].invocations = 1 =>
                    /\ tasks[i].pool = apiKeys
                    /\ tasks[i].exec.status # "idle"
              /\ hpc = "returned" => tasks[i].invocations = 1

\* C32 witness: a plan of two groups has been answered, one of the groups
\* having lost all its files, and both groups were invoked once
C32_Witness ==
    /\ hpc = "returned"
    /\ Len(tasks) = 2
    /\ AllFilesSkipped # {}
    /\ \A i \in DOMAIN tasks : tasks[i].invocations = 1

\* C33: every attempt began at an elapsed time below the deadline, and a
\* request in flight is never cancelled: the invocation leaves the state
\* "request" only when requestFn settles, whatever the time, and when it
\* resolves, after the deadline too, its result is what the invocation
\* returns.
C33_NoAttemptPastDeadline ==
    /\ [](\A n \in Attempts : attemptLog[n].startedAt - inv.startTime < maxDurationMs)
    /\ [][(inv.status = "request" /\ inv' # inv) =>
            /\ Len(attemptLog') = Len(attemptLog)
            /\ attemptLog'[Len(attemptLog')].outcome.kind \in {"ok", "error"}
            /\ attemptLog'[Len(attemptLog')].endedAt = now
            /\ attemptLog'[Len(attemptLog')].outcome.kind = "ok" =>
                  /\ inv'.status = "returned"
                  /\ inv'.result = ResultOf(inv, apiKeys)]_vars

\* C33 witness: a request that was in flight when the deadline passed has
\* resolved and its result was returned
C33_Witness ==
    /\ inv.status = "returned"
    /\ LastAttempt.outcome.kind = "ok"
    /\ LastAttempt.startedAt - inv.startTime < maxDurationMs
    /\ LastAttempt.endedAt - inv.startTime >= maxDurationMs

Ended == inv.status \in {"returned", "threw"}

\* C34: every invocation that has begun eventually ends, and it ends with
\* the result of its last attempt, with the non-rotatable error of its last
\* attempt, or with the exhaustion error; this under rejections without
\* limit, a pool of one credential included.
C34_ExecutorTerminates ==
    /\ (inv.status # "idle") ~> Ended
    /\ [](Ended =>
            \/ inv.status = "returned" /\ LastAttempt.outcome.kind = "ok"
            \/ /\ inv.status = "threw"
               /\ LastAttempt.outcome.kind = "error"
               /\ inv.error = LastAttempt.outcome.message
               /\ ~isRotatableError(inv.error)
            \/ TimedOut)

\* C34 witness: a pool of one credential was rejected with a rotatable error
\* on every attempt, one attempt per backoff period until the deadline, and
\* the invocation ended with the exhaustion error
C34_Witness ==
    /\ PoolSize = 1
    /\ TimedOut
    /\ inv.attemptCount = maxDurationMs \div BackoffMs
    /\ \A n \in Attempts : attemptLog[n].outcome = Failed(<<"429">>)

(***************************************************************************)
(* Claims about the workspace slot and the temporary directories           *)
(* (SpecWorkspace).                                                        *)
(***************************************************************************)
\* call c throws in this step (mkdtemp or the clone rejected)
FailsNow(c) == calls[c].pc \in {"mkdtemp", "clone"} /\ calls'[c].pc = "failed"

\* C35 (as claimed): when a setWorkspace call made while a workspace was
\* current fails (mkdtemp or the clone rejects), that prior workspace is
\* still the current one and its directory still exists.
C35_FailedSetupKeepsWorkspace ==
    [][\A c \in DOMAIN calls :
          (FailsNow(c) /\ calls[c].prior # NoPath) =>
              /\ currentWorkspace'.present
              /\ currentWorkspace'.localPath = calls[c].prior
              /\ DirExists(tempDirs', calls[c].prior)]_vars

\* the directories an rm in progress is removing
BeingRemoved == {calls[c].pathToClean : c \in {d \in DOMAIN calls : calls[d].pc = "rm"}}

\* the directories whose clone has completed
Cloned == {calls[c].tempDir : c \in {d \in DOMAIN calls : calls[d].pc = "done"}}

\* C36 (as claimed): in every reachable state, calls suspended at an await
\* included, a workspace returned by getWorkspaceInfo has a directory that
\* exists, holds the completed clone and is not being removed.
C36_CurrentWorkspaceUsable ==
    currentWorkspace.present =>
        /\ DirExists(tempDirs, currentWorkspace.localPath)
        /\ currentWorkspace.localPath \in Cloned
        /\ currentWorkspace.localPath \notin BeingRemoved

\* the temporary directories that exist
ExistingDirs == {p \in DOMAIN tempDirs : tempDirs[p]}

\* C37 (as claimed): once every call has run to completion, each directory
\* made by setWorkspace is the current workspace's directory or has been
\* removed, so at most one exists.
C37_NoLeakedDirectories ==
    (CallsInFlight = {}) =>
        /\ \A p \in ExistingDirs :
              currentWorkspace.present /\ currentWorkspace.localPath = p
        /\ Cardinality(ExistingDirs) <= 1


\* C38: whatever the interleaving of the set_repository requests, served
\* by setRepositoryLogic or not, a call of setRepositoryLogic that has
\* returned answers with the workspace it cloned itself; its
\* usageAnalysis reports that same workspace and was computed by scanning
\* that workspace's directory, which existed and was not being removed when
\* it was scanned.
C38_ReportsOwnWorkspace ==
    /\ [](\A c \in DOMAIN calls :
            (calls[c].via = "tool" /\ calls[c].pc = "done") =>
                LET a == calls[c].answer
                IN  /\ a.returned
                    /\ a.workspace = Workspace(calls[c].repoUrl, calls[c].tempDir)
                    /\ a.usageAnalysis.workspaceInfo = a.workspace
                    /\ a.usageAnalysis.scanned = a.workspace.localPath)
    /\ [][\A c \in DOMAIN calls :
            (calls[c].via = "tool" /\ calls[c].pc = "clone" /\ calls'[c].pc = "done") =>
                /\ DirExists(tempDirs', calls'[c].answer.usageAnalysis.scanned)
                /\ calls'[c].answer.usageAnalysis.scanned \notin BeingRemoved]_vars

\* C38 witness: two requests that were both received before either clone
\* had finished have both answered, each with its own directory
C38_Witness ==
    /\ Len(calls) >= 2
    /\ calls[1].via = "tool" /\ calls[2].via = "tool"
    /\ calls[1].pc = "done" /\ calls[2].pc = "done"
    /\ calls[1].prior = NoPath /\ calls[2].prior = NoPath
    /\ calls[1].answer.usageAnalysis.scanned = calls[1].tempDir
    /\ calls[2].answer.usageAnalysis.scanned = calls[2].tempDir
    /\ calls[1].tempDir # calls[2].tempDir

\* C39 (as claimed): every group the File Grouper returns holds at least one
\* file, whatever the manifest and whatever the AI proposed (a proposed
\* group with only unknown paths or with no path at all included).
C39_NoEmptyGroups ==
    gpc \in {"algorithmic", "assisted"} =>
        \A k \in DOMAIN fileGroups : fileGroups[k].files # <<>>

(***************************************************************************)
(* The request analyzeGroup sends for a group, as text (lines 2542-2583),  *)
(* and its estimate as validateTokenLimit would compute it.                *)
(***************************************************************************)
\* fs.readFile(filePath, "utf-8"), line 2515, on the disk of the analysis:
\* file "a" is a short file, file "b" a single file of 4,000,004 characters
DiskText(filePath) ==
    IF filePath = "b" THEN Run("x", 4 * GEMINI_25_PRO_TOKEN_LIMIT + 4) ELSE Run("x", 8)

\* the characters of a string, as a template literal interpolates them
\* (the question over the schema's limit is one run of its character)
RECURSIVE TextOf(_)
TextOf(s) ==
    IF s = LongQuestion THEN Run("q", Len(LongQuestion))
    ELSE IF s = "" THEN <<>>
    ELSE Run(CharAt(s, 1), 1) \o TextOf(SubSeq(s, 2, Len(s)))

\* "You are a general software analysis AI. Analyze the provided files.",
\* line 2542: 55 letters (written as one run, the estimator telling only
\* newlines, spaces and special characters apart), 10 spaces, 2 full stops
fallbackPrompt == Run("a", 55) \o Run(" ", 10) \o Run(".", 2)

\* group.customPrompt || fallbackPrompt, line 2561: undefined and the empty
\* string are falsy, every other string is taken
effectivePrompt(group) ==
    IF group.customPrompt \in {Undefined, StringValue("")} THEN fallbackPrompt
    ELSE TextOf(group.customPrompt[1])

\* `--- File: ${f.filePath} ---\n${f.content}`, line 2557
FileSection(f) ==
    Run("-", 3) \o Run(" ", 1) \o Run("F", 1) \o Run("i", 1) \o Run("l", 1) \o Run("e", 1)
        \o Run(":", 1) \o Run(" ", 1) \o TextOf(f.filePath) \o Run(" ", 1) \o Run("-", 3)
        \o Run("\n", 1) \o DiskText(f.filePath)

RECURSIVE JoinSections(_)
\* .join("\n\n"), line 2558
JoinSections(fs) ==
    IF fs = <<>> THEN <<>>
    ELSE IF Len(fs) = 1 THEN FileSection(fs[1])
         ELSE FileSection(fs[1]) \o Run("\n", 2) \o JoinSections(Tail(fs))

\* groupContext, lines 2556-2558
groupContext(group) == JoinSections(group.files)

\* estimate(group content) + estimate(instruction) + estimate(question)
GroupEstimate(group) ==
    TotalTokens(groupContext(group), effectivePrompt(group), TextOf(request.question))

\* the tasks that have sent a request to the provider
Called == {i \in DOMAIN tasks : tasks[i].exec.attemptCount >= 1}

\* C40 (as claimed): a request is sent for a group only when its content,
\* instruction and question are estimated at no more than 1,000,000 tokens
\* together; a group over the limit gets no request and ends as a failed
\* outcome.
C40_NoOverLimitGroupCall ==
    \A i \in DOMAIN tasks :
        /\ i \in Called => GroupEstimate(groups[i]) <= GEMINI_25_PRO_TOKEN_LIMIT
        /\ (GroupEstimate(groups[i]) > GEMINI_25_PRO_TOKEN_LIMIT /\ tasks[i].pc = "done") =>
              /\ i \notin Called
              /\ tasks[i].promise.value.kind = "failed"

====
